---- MODULE Spec2Model ----
(***************************************************************************)
(* Model of the chainable SQL query builder of inventory_service           *)
(* (internal/repo/builder/builder.go).                                     *)
(*                                                                         *)
(* Go strings are modelled as sequences of one-character strings, so that  *)
(* the character scan of replacePlaceholders and the decimal rendering of  *)
(* fmt.Sprintf("%d") are computed, not assumed.  Builders live in a heap   *)
(* (a sequence of records); a *SQLBuilder is an index into that heap.      *)
(***************************************************************************)
EXTENDS Integers, Sequences, FiniteSets

VARIABLES
    heap,       \* the allocated SQLBuilder structs, addressed 1..Len(heap)
    ret,        \* the *SQLBuilder returned by the last fluent call (0: none yet)
    out,        \* result of the last Build, while no fluent call followed it
    builds,     \* consecutive Build calls on out.r with no fluent call between
    ledger,     \* per builder: what the caller has passed to it so far
    budget,     \* fluent calls the caller may still make
    swapped,    \* SpecSwap: the calls last made in both orders
    branch,     \* SpecBranch: the branch point and the calls of its two branches
    scan,       \* SpecReplace: one call of replacePlaceholders and its result
    race,       \* SpecRace: the goroutines inside Where and what they hold
    pool,       \* SpecPool: the call of NewPool that main makes
    rpc         \* SpecPool: the DeleteProduct call the server is handling

vars == <<heap, ret, out, builds, ledger, budget, swapped, branch, scan, race,
          pool, rpc>>

----------------------------------------------------------------------------
(* Bounds of the model *)

\* fluent calls per run of the caller
MaxCalls == 3
\* calls per run of the two call sequences that SpecSwap compares
MaxSwapCalls == 3
\* calls that build the shared prefix of SpecBranch
MaxPrefixCalls == 2
\* calls per run made on both builders of SpecTop
MaxTopCalls == 3
\* largest value of the counter that replacePlaceholders is entered with
MaxStart == 10
\* entries the clause list holds before the concurrent calls of SpecRace
MaxRacePrefix == 3
\* fluent calls per run of the caller that holds the two builders of SpecPair
MaxPairCalls == 2

----------------------------------------------------------------------------
(* Input alphabet: the strings and values the callers pass *)

EmptyStr == <<>>

TableT == <<"t">>
TableU == <<"u">>
Tables == {TableT, TableU}
\* From(table): a table, or the empty string
FromTables == Tables \cup {EmptyStr}

ColA == <<"a">>
ColB == <<"b">>
ColumnLists == {<< >>, <<ColA>>, <<ColA, ColB>>}
NonEmptyColumnLists == ColumnLists \ {<< >>}

ValueLists == {<<"v1">>, <<"v2", "v3">>}

\* templates: one marker, two markers, no marker, a marker inside a quoted literal
TmplOne == <<"a", "=", "?">>
TmplTwo == <<"b", "(", "?", ",", "?", ")">>
TmplNone == <<"c">>
TmplQuoted == <<"d", "=", "'", "?", "'">>

\* Where(condition, args...): matched and mismatched argument counts
WhereInputs ==
    { <<TmplOne, <<"w1">> >>, <<TmplTwo, <<"w2", "w3">> >>, <<TmplNone, << >> >>,
      <<TmplOne, << >> >>, <<TmplNone, <<"w4">> >> }

\* Set(clause, args...): matched and mismatched argument counts
SetInputs ==
    { <<TmplOne, <<"s1">> >>, <<TmplTwo, <<"s2", "s3">> >>,
      <<TmplQuoted, <<"s4">> >>, <<TmplOne, <<"s5", "s6">> >> }

OrderExprs == { <<"a">>, <<"b", " ", "D">> }
LimitInputs == {-5, 0, 10}
OffsetInputs == {-5, 0, 3}

----------------------------------------------------------------------------
(* The SQLBuilder struct and its constructor *)

NewSQLBuilder ==
    [ queryType  |-> "",
      selectCols |-> << >>,
      tableName  |-> EmptyStr,
      insertCols |-> << >>,
      returning  |-> << >>,
      values     |-> << >>,
      setClauses |-> << >>,
      whereConds |-> << >>,
      orderByCol |-> EmptyStr,
      limitVal   |-> -1,
      offsetVal  |-> -1 ]

setClause(clause, args) == [clause |-> clause, args |-> args]
whereCondition(condition, args) == [condition |-> condition, args |-> args]

----------------------------------------------------------------------------
(* The fluent methods.  Each takes the heap and the receiver pointer b and *)
(* yields the heap after the call and the pointer the method returns.      *)

\* mutant: Select starts a statement afresh and drops earlier conditions
SelectClearsWhere(h, b, columns) ==
    [ heap |-> [h EXCEPT ![b].queryType = "SELECT",
                         ![b].selectCols = @ \o columns,
                         ![b].whereConds = << >>],
      ret |-> b ]

\* mutant: Select replaces the column list instead of appending to it
SelectReplaces(h, b, columns) ==
    [ heap |-> [h EXCEPT ![b].queryType = "SELECT",
                         ![b].selectCols = columns],
      ret |-> b ]

Select(h, b, columns) ==
    [ heap |-> [h EXCEPT ![b].queryType = "SELECT",
                         ![b].selectCols = @ \o columns],
      ret |-> b ]

\* mutant: From ignores an empty table name
FromIfNonEmpty(h, b, table) ==
    [ heap |-> [h EXCEPT ![b].tableName = IF table = EmptyStr THEN @ ELSE table],
      ret |-> b ]

\* mutant: the table name is kept in one place shared by all builders
FromShared(h, b, table) ==
    [ heap |-> [k \in DOMAIN h |-> [h[k] EXCEPT !.tableName = table]],
      ret |-> b ]

From(h, b, table) ==
    [ heap |-> [h EXCEPT ![b].tableName = table], ret |-> b ]

\* mutant: Insert keeps a table name that was set before
InsertKeepsTable(h, b, table) ==
    [ heap |-> [h EXCEPT ![b].queryType = "INSERT",
                         ![b].tableName = IF @ = EmptyStr THEN table ELSE @],
      ret |-> b ]

Insert(h, b, table) ==
    [ heap |-> [h EXCEPT ![b].queryType = "INSERT", ![b].tableName = table],
      ret |-> b ]

Columns(h, b, columns) ==
    [ heap |-> [h EXCEPT ![b].insertCols = @ \o columns], ret |-> b ]

\* mutant: Values starts a new tuple instead of extending the one held
ValuesReplaces(h, b, values) ==
    [ heap |-> [h EXCEPT ![b].values = values], ret |-> b ]

Values(h, b, values) ==
    [ heap |-> [h EXCEPT ![b].values = @ \o values], ret |-> b ]

Update(h, b, table) ==
    [ heap |-> [h EXCEPT ![b].queryType = "UPDATE", ![b].tableName = table],
      ret |-> b ]

Set(h, b, clause, args) ==
    [ heap |-> [h EXCEPT ![b].setClauses = Append(@, setClause(clause, args))],
      ret |-> b ]

\* mutant: Returning replaces the column list instead of appending to it
ReturningReplaces(h, b, columns) ==
    [ heap |-> [h EXCEPT ![b].returning = columns], ret |-> b ]

Returning(h, b, columns) ==
    [ heap |-> [h EXCEPT ![b].returning = @ \o columns], ret |-> b ]

\* mutant: Delete leaves a statement kind chosen earlier in place
DeleteIfUnset(h, b) ==
    [ heap |-> [h EXCEPT ![b].queryType = IF @ = "" THEN "DELETE" ELSE @],
      ret |-> b ]

Delete(h, b) ==
    [ heap |-> [h EXCEPT ![b].queryType = "DELETE"], ret |-> b ]

\* mutant: Where leaves its receiver alone and returns an extended copy
WhereCopy(h, b, condition, args) ==
    [ heap |-> Append(h, [h[b] EXCEPT !.whereConds =
                              Append(@, whereCondition(condition, args))]),
      ret |-> Len(h) + 1 ]

Where(h, b, condition, args) ==
    [ heap |-> [h EXCEPT ![b].whereConds =
                             Append(@, whereCondition(condition, args))],
      ret |-> b ]

OrderBy(h, b, column) ==
    [ heap |-> [h EXCEPT ![b].orderByCol = column], ret |-> b ]

Limit(h, b, limit) ==
    [ heap |-> [h EXCEPT ![b].limitVal = limit], ret |-> b ]

Offset(h, b, offset) ==
    [ heap |-> [h EXCEPT ![b].offsetVal = offset], ret |-> b ]

----------------------------------------------------------------------------
(* Text helpers of the Go runtime and standard library *)

Str_SELECT == <<"S", "E", "L", "E", "C", "T", " ">>
Str_STAR == <<"*">>
Str_FROM == <<" ", "F", "R", "O", "M", " ">>
Str_WHERE == <<" ", "W", "H", "E", "R", "E", " ">>
Str_AND == <<" ", "A", "N", "D", " ">>
Str_COMMA == <<",", " ">>
Str_ORDERBY == <<" ", "O", "R", "D", "E", "R", " ", "B", "Y", " ">>
Str_LIMIT == <<" ", "L", "I", "M", "I", "T", " ">>
Str_OFFSET == <<" ", "O", "F", "F", "S", "E", "T", " ">>
Str_INSERT == <<"I", "N", "S", "E", "R", "T", " ", "I", "N", "T", "O", " ">>
Str_VALUES == <<" ", "V", "A", "L", "U", "E", "S", " ", "(">>
Str_UPDATE == <<"U", "P", "D", "A", "T", "E", " ">>
Str_SET == <<" ", "S", "E", "T", " ">>
Str_DELETE == <<"D", "E", "L", "E", "T", "E", " ", "F", "R", "O", "M", " ">>
Str_RETURNING == <<" ", "R", "E", "T", "U", "R", "N", "I", "N", "G", " ">>

Digits == <<"0", "1", "2", "3", "4", "5", "6", "7", "8", "9">>

\* fmt.Sprintf("%d", n)
RECURSIVE FormatInt(_)
FormatInt(n) ==
    IF n < 0 THEN <<"-">> \o FormatInt(0 - n)
    ELSE IF n < 10 THEN <<Digits[n + 1]>>
    ELSE FormatInt(n \div 10) \o <<Digits[(n % 10) + 1]>>

\* strings.Join(elems, sep)
RECURSIVE Join(_, _)
Join(elems, sep) ==
    IF Len(elems) = 0 THEN EmptyStr
    ELSE IF Len(elems) = 1 THEN elems[1]
    ELSE elems[1] \o sep \o Join(Tail(elems), sep)

\* a Go index expression s[i] (0-based) panics unless 0 <= i < len(s)
InRange(i, n) == 0 <= i /\ i < n

----------------------------------------------------------------------------
(* replacePlaceholders: the loop, with i the loop variable, result the     *)
(* string built so far and num the counter behind the placeholderNum       *)
(* pointer.  Yields the returned string and the counter after the call.    *)

\* mutant: the loop runs to i <= len(clause)
RECURSIVE replaceLoopOffByOne(_, _, _, _)
replaceLoopOffByOne(clause, i, result, num) ==
    IF ~(i <= Len(clause))
    THEN [result |-> result, num |-> num, panicked |-> FALSE]
    ELSE IF ~InRange(i, Len(clause))
    THEN [result |-> result, num |-> num, panicked |-> TRUE]
    ELSE IF clause[i + 1] = "?"
    THEN replaceLoopOffByOne(clause, i + 1,
                             result \o <<"$">> \o FormatInt(num), num + 1)
    ELSE replaceLoopOffByOne(clause, i + 1, result \o <<clause[i + 1]>>, num)

\* mutant: a '?' between single quotes is copied, not replaced
RECURSIVE replaceLoopQuoteAware(_, _, _, _)
replaceLoopQuoteAware(clause, i, result, num) ==
    IF ~(i < Len(clause))
    THEN [result |-> result, num |-> num, panicked |-> FALSE]
    ELSE IF ~InRange(i, Len(clause))
    THEN [result |-> result, num |-> num, panicked |-> TRUE]
    ELSE IF /\ clause[i + 1] = "?"
            /\ Cardinality({p \in 1..i : clause[p] = "'"}) % 2 = 0
    THEN replaceLoopQuoteAware(clause, i + 1,
                               result \o <<"$">> \o FormatInt(num), num + 1)
    ELSE replaceLoopQuoteAware(clause, i + 1, result \o <<clause[i + 1]>>, num)

RECURSIVE replaceLoop(_, _, _, _)
replaceLoop(clause, i, result, num) ==
    IF ~(i < Len(clause))
    THEN [result |-> result, num |-> num, panicked |-> FALSE]
    ELSE IF ~InRange(i, Len(clause))
    THEN [result |-> result, num |-> num, panicked |-> TRUE]
    ELSE IF clause[i + 1] = "?"
    THEN replaceLoop(clause, i + 1, result \o <<"$">> \o FormatInt(num), num + 1)
    ELSE replaceLoop(clause, i + 1, result \o <<clause[i + 1]>>, num)

\* mutant: the counter is passed by value, so the caller's copy never moves
replacePlaceholdersByValue(clause, placeholderNum) ==
    [replaceLoop(clause, 0, EmptyStr, placeholderNum) EXCEPT
        !.num = placeholderNum]

replacePlaceholders(clause, placeholderNum) ==
    replaceLoop(clause, 0, EmptyStr, placeholderNum)

----------------------------------------------------------------------------
(* The loops of the build functions *)

\* conditions := make([]string, n)
MakeStrings(n) == [k \in 1..n |-> EmptyStr]

\* for i, cond := range b.whereConds { conditions[i] = ...; args = append(...) }
\* mutant: a condition without a marker contributes no argument
RECURSIVE whereLoopMarkedOnly(_, _, _, _, _)
whereLoopMarkedOnly(whereConds, i, conditions, num, args) ==
    IF ~(i < Len(whereConds))
    THEN [strs |-> conditions, num |-> num, args |-> args, panicked |-> FALSE]
    ELSE LET cond == whereConds[i + 1]
             rep == replacePlaceholders(cond.condition, num)
         IN  IF rep.panicked \/ ~InRange(i, Len(conditions))
             THEN [strs |-> conditions, num |-> num, args |-> args,
                   panicked |-> TRUE]
             ELSE whereLoopMarkedOnly(whereConds, i + 1,
                      [conditions EXCEPT ![i + 1] = rep.result], rep.num,
                      IF rep.num = num THEN args ELSE args \o cond.args)

RECURSIVE whereLoop(_, _, _, _, _)
whereLoop(whereConds, i, conditions, num, args) ==
    IF ~(i < Len(whereConds))
    THEN [strs |-> conditions, num |-> num, args |-> args, panicked |-> FALSE]
    ELSE LET cond == whereConds[i + 1]
             rep == replacePlaceholders(cond.condition, num)
         IN  IF rep.panicked \/ ~InRange(i, Len(conditions))
             THEN [strs |-> conditions, num |-> num, args |-> args,
                   panicked |-> TRUE]
             ELSE whereLoop(whereConds, i + 1,
                            [conditions EXCEPT ![i + 1] = rep.result],
                            rep.num, args \o cond.args)

\* for i, set := range b.setClauses { clauses[i] = ...; args = append(...) }
RECURSIVE setLoop(_, _, _, _, _)
setLoop(setClauses, i, clauses, num, args) ==
    IF ~(i < Len(setClauses))
    THEN [strs |-> clauses, num |-> num, args |-> args, panicked |-> FALSE]
    ELSE LET set == setClauses[i + 1]
             rep == replacePlaceholders(set.clause, num)
         IN  IF rep.panicked \/ ~InRange(i, Len(clauses))
             THEN [strs |-> clauses, num |-> num, args |-> args,
                   panicked |-> TRUE]
             ELSE setLoop(setClauses, i + 1,
                          [clauses EXCEPT ![i + 1] = rep.result],
                          rep.num, args \o set.args)

\* for i := range b.values { placeholders[i] = fmt.Sprintf("$%d", i+1) }
RECURSIVE valuesLoop(_, _, _)
valuesLoop(values, i, placeholders) ==
    IF ~(i < Len(values))
    THEN [strs |-> placeholders, panicked |-> FALSE]
    ELSE IF ~InRange(i, Len(placeholders))
    THEN [strs |-> placeholders, panicked |-> TRUE]
    ELSE valuesLoop(values, i + 1,
                    [placeholders EXCEPT ![i + 1] = <<"$">> \o FormatInt(i + 1)])

\* what a Build that panicked leaves behind: no return value at all
Panic == [query |-> EmptyStr, args |-> << >>, panicked |-> TRUE]

\* the RETURNING clause shared by buildInsert, buildUpdate and buildDelete
returningClause(s) ==
    IF Len(s.returning) > 0
    THEN Str_RETURNING \o Join(s.returning, Str_COMMA)
    ELSE EmptyStr

----------------------------------------------------------------------------
(* The build functions, on the struct value s that the receiver points to *)

\* mutant: LIMIT and OFFSET are rendered for positive values only
buildSelectPositiveOnly(s) ==
    LET cols   == IF Len(s.selectCols) = 0 THEN Str_STAR
                  ELSE Join(s.selectCols, Str_COMMA)
        from   == IF s.tableName # EmptyStr THEN Str_FROM \o s.tableName
                  ELSE EmptyStr
        hasW   == Len(s.whereConds) > 0
        w      == whereLoop(s.whereConds, 0, MakeStrings(Len(s.whereConds)),
                            1, << >>)
        where  == IF hasW THEN Str_WHERE \o Join(w.strs, Str_AND) ELSE EmptyStr
        args   == IF hasW THEN w.args ELSE << >>
        order  == IF s.orderByCol # EmptyStr THEN Str_ORDERBY \o s.orderByCol
                  ELSE EmptyStr
        limit  == IF s.limitVal > 0 THEN Str_LIMIT \o FormatInt(s.limitVal)
                  ELSE EmptyStr
        offset == IF s.offsetVal > 0 THEN Str_OFFSET \o FormatInt(s.offsetVal)
                  ELSE EmptyStr
    IN  IF hasW /\ w.panicked THEN Panic
        ELSE [ query |-> Str_SELECT \o cols \o from \o where \o order
                           \o limit \o offset,
               args |-> args,
               panicked |-> FALSE ]

buildSelect(s) ==
    LET cols   == IF Len(s.selectCols) = 0 THEN Str_STAR
                  ELSE Join(s.selectCols, Str_COMMA)
        from   == IF s.tableName # EmptyStr THEN Str_FROM \o s.tableName
                  ELSE EmptyStr
        hasW   == Len(s.whereConds) > 0
        w      == whereLoop(s.whereConds, 0, MakeStrings(Len(s.whereConds)),
                            1, << >>)
        where  == IF hasW THEN Str_WHERE \o Join(w.strs, Str_AND) ELSE EmptyStr
        args   == IF hasW THEN w.args ELSE << >>
        order  == IF s.orderByCol # EmptyStr THEN Str_ORDERBY \o s.orderByCol
                  ELSE EmptyStr
        limit  == IF s.limitVal >= 0 THEN Str_LIMIT \o FormatInt(s.limitVal)
                  ELSE EmptyStr
        offset == IF s.offsetVal >= 0 THEN Str_OFFSET \o FormatInt(s.offsetVal)
                  ELSE EmptyStr
    IN  IF hasW /\ w.panicked THEN Panic
        ELSE [ query |-> Str_SELECT \o cols \o from \o where \o order
                           \o limit \o offset,
               args |-> args,
               panicked |-> FALSE ]

\* mutant: one value slot per column when Columns was called
buildInsertPerColumn(s) ==
    LET cols == IF Len(s.insertCols) > 0
                THEN <<" ", "(">> \o Join(s.insertCols, Str_COMMA) \o <<")">>
                ELSE EmptyStr
        n    == IF Len(s.insertCols) > 0 THEN Len(s.insertCols)
                ELSE Len(s.values)
        v    == valuesLoop(MakeStrings(n), 0, MakeStrings(n))
    IN  IF v.panicked THEN Panic
        ELSE [ query |-> Str_INSERT \o s.tableName \o cols \o Str_VALUES
                           \o Join(v.strs, Str_COMMA) \o <<")">>
                           \o returningClause(s),
               args |-> s.values,
               panicked |-> FALSE ]

\* mutant: an INSERT renders the conditions and appends their arguments
buildInsertWithWhere(s) ==
    LET cols  == IF Len(s.insertCols) > 0
                 THEN <<" ", "(">> \o Join(s.insertCols, Str_COMMA) \o <<")">>
                 ELSE EmptyStr
        v     == valuesLoop(s.values, 0, MakeStrings(Len(s.values)))
        hasW  == Len(s.whereConds) > 0
        w     == whereLoop(s.whereConds, 0, MakeStrings(Len(s.whereConds)),
                           Len(s.values) + 1, s.values)
        where == IF hasW THEN Str_WHERE \o Join(w.strs, Str_AND) ELSE EmptyStr
    IN  IF v.panicked \/ (hasW /\ w.panicked) THEN Panic
        ELSE [ query |-> Str_INSERT \o s.tableName \o cols \o Str_VALUES
                           \o Join(v.strs, Str_COMMA) \o <<")">> \o where
                           \o returningClause(s),
               args |-> IF hasW THEN w.args ELSE s.values,
               panicked |-> FALSE ]

\* mutant: an INSERT with no values leaves the VALUES clause out
buildInsertOmitsEmptyValues(s) ==
    LET cols == IF Len(s.insertCols) > 0
                THEN <<" ", "(">> \o Join(s.insertCols, Str_COMMA) \o <<")">>
                ELSE EmptyStr
        v    == valuesLoop(s.values, 0, MakeStrings(Len(s.values)))
        vals == IF Len(s.values) > 0
                THEN Str_VALUES \o Join(v.strs, Str_COMMA) \o <<")">>
                ELSE EmptyStr
    IN  IF v.panicked THEN Panic
        ELSE [ query |-> Str_INSERT \o s.tableName \o cols \o vals
                           \o returningClause(s),
               args |-> s.values,
               panicked |-> FALSE ]

buildInsert(s) ==
    LET cols == IF Len(s.insertCols) > 0
                THEN <<" ", "(">> \o Join(s.insertCols, Str_COMMA) \o <<")">>
                ELSE EmptyStr
        v    == valuesLoop(s.values, 0, MakeStrings(Len(s.values)))
    IN  IF v.panicked THEN Panic
        ELSE [ query |-> Str_INSERT \o s.tableName \o cols \o Str_VALUES
                           \o Join(v.strs, Str_COMMA) \o <<")">>
                           \o returningClause(s),
               args |-> s.values,
               panicked |-> FALSE ]

\* mutant: the WHERE clause restarts the counter at 1, as buildSelect does
buildUpdateCounterRestart(s) ==
    LET hasS  == Len(s.setClauses) > 0
        st    == setLoop(s.setClauses, 0, MakeStrings(Len(s.setClauses)),
                         1, << >>)
        set   == IF hasS THEN Str_SET \o Join(st.strs, Str_COMMA) ELSE EmptyStr
        args1 == IF hasS THEN st.args ELSE << >>
        hasW  == Len(s.whereConds) > 0
        w     == whereLoop(s.whereConds, 0, MakeStrings(Len(s.whereConds)),
                           1, args1)
        where == IF hasW THEN Str_WHERE \o Join(w.strs, Str_AND) ELSE EmptyStr
        args2 == IF hasW THEN w.args ELSE args1
    IN  IF (hasS /\ st.panicked) \/ (hasW /\ w.panicked) THEN Panic
        ELSE [ query |-> Str_UPDATE \o s.tableName \o set \o where
                           \o returningClause(s),
               args |-> args2,
               panicked |-> FALSE ]

buildUpdate(s) ==
    LET hasS  == Len(s.setClauses) > 0
        st    == setLoop(s.setClauses, 0, MakeStrings(Len(s.setClauses)),
                         1, << >>)
        set   == IF hasS THEN Str_SET \o Join(st.strs, Str_COMMA) ELSE EmptyStr
        num1  == IF hasS THEN st.num ELSE 1
        args1 == IF hasS THEN st.args ELSE << >>
        hasW  == Len(s.whereConds) > 0
        w     == whereLoop(s.whereConds, 0, MakeStrings(Len(s.whereConds)),
                           num1, args1)
        where == IF hasW THEN Str_WHERE \o Join(w.strs, Str_AND) ELSE EmptyStr
        args2 == IF hasW THEN w.args ELSE args1
    IN  IF (hasS /\ st.panicked) \/ (hasW /\ w.panicked) THEN Panic
        ELSE [ query |-> Str_UPDATE \o s.tableName \o set \o where
                           \o returningClause(s),
               args |-> args2,
               panicked |-> FALSE ]

\* mutant: the loop renders the conditions but never appends their arguments
buildDeleteDropsArgs(s) ==
    LET hasW  == Len(s.whereConds) > 0
        w     == whereLoop(s.whereConds, 0, MakeStrings(Len(s.whereConds)),
                           1, << >>)
        where == IF hasW THEN Str_WHERE \o Join(w.strs, Str_AND) ELSE EmptyStr
    IN  IF hasW /\ w.panicked THEN Panic
        ELSE [ query |-> Str_DELETE \o s.tableName \o where
                           \o returningClause(s),
               args |-> << >>,
               panicked |-> FALSE ]

\* mutant: the WHERE clause is numbered on from the markers of the SET clauses
buildDeleteCountsSets(s) ==
    LET st    == setLoop(s.setClauses, 0, MakeStrings(Len(s.setClauses)),
                         1, << >>)
        hasW  == Len(s.whereConds) > 0
        w     == whereLoop(s.whereConds, 0, MakeStrings(Len(s.whereConds)),
                           st.num, << >>)
        where == IF hasW THEN Str_WHERE \o Join(w.strs, Str_AND) ELSE EmptyStr
        args  == IF hasW THEN w.args ELSE << >>
    IN  IF hasW /\ w.panicked THEN Panic
        ELSE [ query |-> Str_DELETE \o s.tableName \o where
                           \o returningClause(s),
               args |-> args,
               panicked |-> FALSE ]

buildDelete(s) ==
    LET hasW  == Len(s.whereConds) > 0
        w     == whereLoop(s.whereConds, 0, MakeStrings(Len(s.whereConds)),
                           1, << >>)
        where == IF hasW THEN Str_WHERE \o Join(w.strs, Str_AND) ELSE EmptyStr
        args  == IF hasW THEN w.args ELSE << >>
    IN  IF hasW /\ w.panicked THEN Panic
        ELSE [ query |-> Str_DELETE \o s.tableName \o where
                           \o returningClause(s),
               args |-> args,
               panicked |-> FALSE ]

\* mutant: an unset statement kind falls through to SELECT
buildSwitchDefaultSelect(s) ==
    CASE s.queryType = "INSERT" -> buildInsert(s)
      [] s.queryType = "UPDATE" -> buildUpdate(s)
      [] s.queryType = "DELETE" -> buildDelete(s)
      [] OTHER -> buildSelect(s)

\* the switch of Build
buildSwitch(s) ==
    CASE s.queryType = "SELECT" -> buildSelect(s)
      [] s.queryType = "INSERT" -> buildInsert(s)
      [] s.queryType = "UPDATE" -> buildUpdate(s)
      [] s.queryType = "DELETE" -> buildDelete(s)
      [] OTHER -> [query |-> EmptyStr, args |-> << >>, panicked |-> FALSE]

\* mutant: Build hands the statement out and resets the builder for reuse
BuildAndReset(h, b) ==
    LET res == buildSwitch(h[b])
    IN  [ heap |-> [h EXCEPT ![b] = NewSQLBuilder], query |-> res.query,
          args |-> res.args, panicked |-> res.panicked ]

\* Build on the pointer b: the returned pair and the heap the call leaves
Build(h, b) ==
    LET res == buildSwitch(h[b])
    IN  [ heap |-> h, query |-> res.query, args |-> res.args,
          panicked |-> res.panicked ]

----------------------------------------------------------------------------
(* The caller's ledger: a record, kept beside each builder, of what the    *)
(* caller has passed to it.  It is written by the actions below from the   *)
(* calls' arguments alone, never from the builder.                         *)

NewLedger ==
    [ entry       |-> "",       \* entry method called most recently
      entries     |-> {},       \* entry methods called so far
      table       |-> EmptyStr, \* argument of the last From/Insert/Update
      tables      |-> {},       \* arguments of all From/Insert/Update calls
      selectCols  |-> << >>,    \* all columns passed to Select, in call order
      insertCols  |-> << >>,    \* all columns passed to Columns
      values      |-> << >>,    \* all values passed to Values
      sets        |-> << >>,    \* the <<clause, args>> of every Set call
      wheres      |-> << >>,    \* the <<condition, args>> of every Where call
      returning   |-> << >>,    \* all columns passed to Returning
      order       |-> << >>,    \* <<column>> of the last OrderBy call
      limit       |-> << >>,    \* <<limit>> of the last Limit call
      offset      |-> << >>,    \* <<offset>> of the last Offset call
      firstClause |-> "" ]      \* which of Set and Where was called first

NoOut == [r |-> 0, query |-> EmptyStr, args |-> << >>, panicked |-> FALSE]

\* SpecSwap's record: the methods of the last swap, in builder 1's order, and
\* whether some swap so far had a call between the two swapped ones that
\* assigns a field one of them assigns
NoSwap == [calls |-> << >>, interfered |-> FALSE]

\* SpecBranch's record: phase of the scenario, the struct B pointed to at the
\* branch point, the call made on the first branch, the sibling's Where
NoBranch ==
    [phase |-> "prefix", base |-> NewSQLBuilder, first |-> << >>,
     second |-> << >>]

\* SpecReplace's record: the arguments of a replacePlaceholders call, whether
\* it was made, the string it returned and the counter it left
NoScan ==
    [clause |-> EmptyStr, start |-> 1, called |-> FALSE, result |-> EmptyStr,
     num |-> 1, panicked |-> FALSE]

\* SpecRace's record, while no goroutine runs
NoRace == [pc |-> << >>]

\* no call of NewPool is in progress
NoPool == [pc |-> ""]

\* no call of DeleteProduct is in progress
NoRpc == [pc |-> ""]

----------------------------------------------------------------------------
(* The state machine: a caller that holds one builder, calls fluent        *)
(* methods on it and builds, any number of times.                          *)

Init ==
    /\ heap = <<NewSQLBuilder>>
    /\ ret = 0
    /\ out = NoOut
    /\ builds = 0
    /\ ledger = <<NewLedger>>
    /\ budget = MaxCalls
    /\ swapped = NoSwap
    /\ branch = NoBranch
    /\ scan = NoScan
    /\ race = NoRace
    /\ pool = NoPool
    /\ rpc = NoRpc

\* bookkeeping common to the fluent calls: res is what the method yields,
\* led the ledger of b after the call
Fluent(res, b, led) ==
    /\ budget > 0
    /\ heap' = res.heap
    /\ ret' = res.ret
    /\ out' = NoOut
    /\ builds' = 0
    /\ ledger' = [ledger EXCEPT ![b] = led]
    /\ budget' = budget - 1
    /\ UNCHANGED <<swapped, branch, scan, race, pool, rpc>>

Entered(led, name) ==
    [led EXCEPT !.entry = name, !.entries = @ \cup {name}]

Claused(led, name) ==
    [led EXCEPT !.firstClause = IF @ = "" THEN name ELSE @]

SelectOn(b) == \E columns \in ColumnLists :
    Fluent(Select(heap, b, columns), b,
           [Entered(ledger[b], "Select") EXCEPT !.selectCols = @ \o columns])

FromOn(b) == \E table \in FromTables :
    Fluent(From(heap, b, table), b,
           [ledger[b] EXCEPT !.table = table, !.tables = @ \cup {table}])

InsertOn(b) == \E table \in Tables :
    Fluent(Insert(heap, b, table), b,
           [Entered(ledger[b], "Insert") EXCEPT
               !.table = table, !.tables = @ \cup {table}])

ColumnsOn(b) == \E columns \in NonEmptyColumnLists :
    Fluent(Columns(heap, b, columns), b,
           [ledger[b] EXCEPT !.insertCols = @ \o columns])

ValuesOn(b) == \E values \in ValueLists :
    Fluent(Values(heap, b, values), b,
           [ledger[b] EXCEPT !.values = @ \o values])

UpdateOn(b) == \E table \in Tables :
    Fluent(Update(heap, b, table), b,
           [Entered(ledger[b], "Update") EXCEPT
               !.table = table, !.tables = @ \cup {table}])

SetOn(b) == \E in \in SetInputs :
    Fluent(Set(heap, b, in[1], in[2]), b,
           [Claused(ledger[b], "Set") EXCEPT !.sets = Append(@, in)])

ReturningOn(b) == \E columns \in ColumnLists :
    Fluent(Returning(heap, b, columns), b,
           [ledger[b] EXCEPT !.returning = @ \o columns])

DeleteOn(b) ==
    Fluent(Delete(heap, b), b, Entered(ledger[b], "Delete"))

WhereOn(b) == \E in \in WhereInputs :
    Fluent(Where(heap, b, in[1], in[2]), b,
           [Claused(ledger[b], "Where") EXCEPT !.wheres = Append(@, in)])

OrderByOn(b) == \E column \in OrderExprs :
    Fluent(OrderBy(heap, b, column), b, [ledger[b] EXCEPT !.order = <<column>>])

LimitOn(b) == \E limit \in LimitInputs :
    Fluent(Limit(heap, b, limit), b, [ledger[b] EXCEPT !.limit = <<limit>>])

OffsetOn(b) == \E offset \in OffsetInputs :
    Fluent(Offset(heap, b, offset), b, [ledger[b] EXCEPT !.offset = <<offset>>])

BuildOn(b) ==
    LET res == Build(heap, b)
    IN  /\ heap' = res.heap
        /\ out' = [r |-> b, query |-> res.query, args |-> res.args,
                   panicked |-> res.panicked]
        /\ builds' = IF out.r = b THEN (IF builds < 2 THEN builds + 1 ELSE 2)
                     ELSE 1
        /\ UNCHANGED <<ret, ledger, budget, swapped, branch, scan, race, pool, rpc>>

CallSelect == \E b \in DOMAIN heap : SelectOn(b)
CallFrom == \E b \in DOMAIN heap : FromOn(b)
CallInsert == \E b \in DOMAIN heap : InsertOn(b)
CallColumns == \E b \in DOMAIN heap : ColumnsOn(b)
CallValues == \E b \in DOMAIN heap : ValuesOn(b)
CallUpdate == \E b \in DOMAIN heap : UpdateOn(b)
CallSet == \E b \in DOMAIN heap : SetOn(b)
CallReturning == \E b \in DOMAIN heap : ReturningOn(b)
CallDelete == \E b \in DOMAIN heap : DeleteOn(b)
CallWhere == \E b \in DOMAIN heap : WhereOn(b)
CallOrderBy == \E b \in DOMAIN heap : OrderByOn(b)
CallLimit == \E b \in DOMAIN heap : LimitOn(b)
CallOffset == \E b \in DOMAIN heap : OffsetOn(b)
CallBuild == \E b \in DOMAIN heap : BuildOn(b)

Next ==
    \/ CallSelect
    \/ CallFrom
    \/ CallInsert
    \/ CallColumns
    \/ CallValues
    \/ CallUpdate
    \/ CallSet
    \/ CallReturning
    \/ CallDelete
    \/ CallWhere
    \/ CallOrderBy
    \/ CallLimit
    \/ CallOffset
    \/ CallBuild

Spec == Init /\ [][Next]_vars

\* some fluent method is called on b
FluentOn(b) ==
    \/ SelectOn(b) \/ FromOn(b) \/ InsertOn(b) \/ ColumnsOn(b) \/ ValuesOn(b)
    \/ UpdateOn(b) \/ SetOn(b) \/ ReturningOn(b) \/ DeleteOn(b) \/ WhereOn(b)
    \/ OrderByOn(b) \/ LimitOn(b) \/ OffsetOn(b)

----------------------------------------------------------------------------
(* Calls as values <<method, argument>>, for the specifications that run   *)
(* call sequences chosen as a whole.                                       *)

SelectCalls == {<<"Select", x>> : x \in ColumnLists}
FromCalls == {<<"From", x>> : x \in FromTables}
InsertCalls == {<<"Insert", x>> : x \in Tables}
ColumnsCalls == {<<"Columns", x>> : x \in NonEmptyColumnLists}
ValuesCalls == {<<"Values", x>> : x \in ValueLists}
UpdateCalls == {<<"Update", x>> : x \in Tables}
SetCalls == {<<"Set", x>> : x \in SetInputs}
ReturningCalls == {<<"Returning", x>> : x \in ColumnLists}
DeleteCalls == {<<"Delete", << >> >>}
WhereCalls == {<<"Where", x>> : x \in WhereInputs}
OrderByCalls == {<<"OrderBy", x>> : x \in OrderExprs}
LimitCalls == {<<"Limit", x>> : x \in LimitInputs}
OffsetCalls == {<<"Offset", x>> : x \in OffsetInputs}

AllCalls ==
    SelectCalls \cup FromCalls \cup InsertCalls \cup ColumnsCalls
    \cup ValuesCalls \cup UpdateCalls \cup SetCalls \cup ReturningCalls
    \cup DeleteCalls \cup WhereCalls \cup OrderByCalls \cup LimitCalls
    \cup OffsetCalls

\* the call c made on the pointer b
Invoke(h, b, c) ==
    CASE c[1] = "Select"    -> Select(h, b, c[2])
      [] c[1] = "From"      -> From(h, b, c[2])
      [] c[1] = "Insert"    -> Insert(h, b, c[2])
      [] c[1] = "Columns"   -> Columns(h, b, c[2])
      [] c[1] = "Values"    -> Values(h, b, c[2])
      [] c[1] = "Update"    -> Update(h, b, c[2])
      [] c[1] = "Set"       -> Set(h, b, c[2][1], c[2][2])
      [] c[1] = "Returning" -> Returning(h, b, c[2])
      [] c[1] = "Delete"    -> Delete(h, b)
      [] c[1] = "Where"     -> Where(h, b, c[2][1], c[2][2])
      [] c[1] = "OrderBy"   -> OrderBy(h, b, c[2])
      [] c[1] = "Limit"     -> Limit(h, b, c[2])
      [] c[1] = "Offset"    -> Offset(h, b, c[2])

\* the struct fields each method assigns
Writes(method) ==
    CASE method = "Select"    -> {"queryType", "selectCols"}
      [] method = "From"      -> {"tableName"}
      [] method = "Insert"    -> {"queryType", "tableName"}
      [] method = "Columns"   -> {"insertCols"}
      [] method = "Values"    -> {"values"}
      [] method = "Update"    -> {"queryType", "tableName"}
      [] method = "Set"       -> {"setClauses"}
      [] method = "Returning" -> {"returning"}
      [] method = "Delete"    -> {"queryType"}
      [] method = "Where"     -> {"whereConds"}
      [] method = "OrderBy"   -> {"orderByCol"}
      [] method = "Limit"     -> {"limitVal"}
      [] method = "Offset"    -> {"offsetVal"}

----------------------------------------------------------------------------
(* SpecSwap: two builders from two NewSQLBuilder calls are given the same  *)
(* call sequence, except that two calls that assign different fields may   *)
(* be made in one order on builder 1 and in the other order on builder 2,  *)
(* either next to each other or with one call between them.                *)

InitSwap ==
    /\ heap = <<NewSQLBuilder, NewSQLBuilder>>
    /\ ret = 0
    /\ out = NoOut
    /\ builds = 0
    /\ ledger = << >>
    /\ budget = MaxSwapCalls
    /\ swapped = NoSwap
    /\ branch = NoBranch
    /\ scan = NoScan
    /\ race = NoRace
    /\ pool = NoPool
    /\ rpc = NoRpc

\* the calls of the sequence cs made one after the other on the pointer b
RECURSIVE InvokeAll(_, _, _)
InvokeAll(h, b, cs) ==
    IF cs = << >> THEN h
    ELSE InvokeAll(Invoke(h, b, Head(cs)).heap, b, Tail(cs))

SameCall ==
    /\ budget >= 1
    /\ \E c \in AllCalls : heap' = InvokeAll(InvokeAll(heap, 1, <<c>>), 2, <<c>>)
    /\ budget' = budget - 1
    /\ UNCHANGED <<ret, out, builds, ledger, swapped, branch, scan, race, pool, rpc>>

SwappedAdjacent ==
    /\ budget >= 2
    /\ \E c, d \in AllCalls :
          /\ Writes(c[1]) \cap Writes(d[1]) = {}
          /\ heap' = InvokeAll(InvokeAll(heap, 1, <<c, d>>), 2, <<d, c>>)
          /\ swapped' = [swapped EXCEPT !.calls = <<c[1], d[1]>>]
    /\ budget' = budget - 2
    /\ UNCHANGED <<ret, out, builds, ledger, branch, scan, race, pool, rpc>>

SwappedApart ==
    /\ budget >= 3
    /\ \E c, d \in AllCalls :
          /\ Writes(c[1]) \cap Writes(d[1]) = {}
          /\ \E m \in AllCalls :
                /\ heap' = InvokeAll(InvokeAll(heap, 1, <<c, m, d>>), 2,
                                     <<d, m, c>>)
                /\ swapped' =
                       [calls |-> <<c[1], m[1], d[1]>>,
                        interfered |->
                            \/ swapped.interfered
                            \/ Writes(m[1])
                                 \cap (Writes(c[1]) \cup Writes(d[1])) # {}]
    /\ budget' = budget - 3
    /\ UNCHANGED <<ret, out, builds, ledger, branch, scan, race, pool, rpc>>

NextSwap == SameCall \/ SwappedAdjacent \/ SwappedApart

SpecSwap == InitSwap /\ [][NextSwap]_vars

----------------------------------------------------------------------------
(* Vocabulary of the properties: what the caller can read off the ledger   *)
(* and off a returned text.                                                *)

Built == out.r # 0
Led == ledger[out.r]

Renumbering == {"Select", "Update", "Delete"}

CountMarkers(template) ==
    Cardinality({p \in DOMAIN template : template[p] = "?"})

\* the <<template, args>> pairs of the calls whose templates a statement of
\* the ledger's kind shows, in the order the text shows them
RenderedPairs(led) ==
    IF led.entry \in {"Select", "Delete"} THEN led.wheres
    ELSE IF led.entry = "Update" THEN led.sets \o led.wheres
    ELSE << >>

RECURSIVE FlatArgs(_)
FlatArgs(pairs) ==
    IF pairs = << >> THEN << >> ELSE pairs[1][2] \o FlatArgs(Tail(pairs))

RECURSIVE TotalMarkers(_)
TotalMarkers(pairs) ==
    IF pairs = << >> THEN 0
    ELSE CountMarkers(pairs[1][1]) + TotalMarkers(Tail(pairs))

\* every call gave exactly as many arguments as its template has markers
Matched(pairs) ==
    \A i \in DOMAIN pairs : Len(pairs[i][2]) = CountMarkers(pairs[i][1])

MarkersBefore(pairs, i) == TotalMarkers(SubSeq(pairs, 1, i - 1))

HasPrefix(s, p) == Len(p) <= Len(s) /\ SubSeq(s, 1, Len(p)) = p
HasSuffix(s, p) == Len(p) <= Len(s) /\ SubSeq(s, Len(s) - Len(p) + 1, Len(s)) = p
Contains(s, p) ==
    \E k \in 0..(Len(s) - Len(p)) : SubSeq(s, k + 1, k + Len(p)) = p

IsDigit(c) == \E d \in 1..10 : Digits[d] = c
DigitValue(c) == (CHOOSE d \in 1..10 : Digits[d] = c) - 1

\* the numbers of the positional placeholders ("$" and the digits after
\* it) of a text, read left to right
RECURSIVE PlaceholderNums(_, _, _, _)
PlaceholderNums(text, p, open, acc) ==
    \* open: a "$" was read and acc's last number is still being read
    IF p > Len(text) THEN acc
    ELSE IF text[p] = "$" THEN PlaceholderNums(text, p + 1, TRUE, Append(acc, 0))
    ELSE IF open /\ IsDigit(text[p])
    THEN PlaceholderNums(text, p + 1, TRUE,
             [acc EXCEPT ![Len(acc)] = 10 * @ + DigitValue(text[p])])
    ELSE PlaceholderNums(text, p + 1, FALSE, acc)

Placeholders(text) == PlaceholderNums(text, 1, FALSE, << >>)

\* the decimal numeral of k, 0 <= k < 100
Numeral(k) ==
    IF k < 10 THEN <<Digits[k + 1]>>
    ELSE <<Digits[(k \div 10) + 1], Digits[(k % 10) + 1]>>

RECURSIVE Concat(_)
Concat(parts) ==
    IF parts = << >> THEN << >> ELSE parts[1] \o Concat(Tail(parts))

\* a template with its k-th marker written as the positional placeholder
\* number start + k - 1
Renumbered(template, start) ==
    Concat([p \in DOMAIN template |->
              IF template[p] = "?"
              THEN <<"$">> \o Numeral(start + CountMarkers(SubSeq(template, 1, p - 1)))
              ELSE <<template[p]>>])

\* the templates of pairs, renumbered one after the other from start
RenumberedAll(pairs, start) ==
    [i \in DOMAIN pairs |->
        Renumbered(pairs[i][1], start + MarkersBefore(pairs, i))]

----------------------------------------------------------------------------
(* C1 as stated: for Select, Update and Delete the argument list Build     *)
(* returns is as long as the number of '?' markers in the rendered         *)
(* templates, whatever number of arguments each call was given; for Insert *)
(* it is as long as the list of supplied values.                           *)
C1_ArgsLengthIsMarkerCount ==
    Built =>
        /\ Led.entry \in Renumbering =>
               Len(out.args) = TotalMarkers(RenderedPairs(Led))
        /\ Led.entry = "Insert" => Len(out.args) = Len(Led.values)

(* C1 as amended: the argument list is as long as the number of arguments  *)
(* given to the rendered Where/Set calls; that is the number of markers    *)
(* when every such call gave as many arguments as its template has         *)
(* markers.  For Insert it is as long as the list of supplied values.      *)
C1_ArgsLengthIsSuppliedCount ==
    Built =>
        /\ Led.entry \in Renumbering =>
               /\ Len(out.args) = Len(FlatArgs(RenderedPairs(Led)))
               /\ Matched(RenderedPairs(Led)) =>
                      Len(out.args) = TotalMarkers(RenderedPairs(Led))
        /\ Led.entry = "Insert" => Len(out.args) = Len(Led.values)

C1_Witness ==
    /\ Built
    /\ Led.entry = "Update"
    /\ Len(Led.sets) > 0
    /\ Len(Led.wheres) > 0
    /\ ~Matched(RenderedPairs(Led))
    /\ Len(out.args) > TotalMarkers(RenderedPairs(Led))

(* C2: for Select, Update and Delete, when every rendered Where/Set call   *)
(* gave as many arguments as its template has markers, the placeholders of *)
(* the text are $1..$N left to right, each rendered template stands in the *)
(* text with its markers numbered from where the previous one stopped, and *)
(* the k-th argument is the one given for the marker rendered as $k.       *)
C2_PlaceholdersMatchArgs ==
    (Built /\ Led.entry \in Renumbering /\ Matched(RenderedPairs(Led))) =>
        LET pairs == RenderedPairs(Led)
            N == TotalMarkers(pairs)
        IN  /\ Placeholders(out.query) = [k \in 1..N |-> k]
            /\ Len(out.args) = N
            /\ \A i \in DOMAIN pairs :
                  /\ Contains(out.query,
                              Renumbered(pairs[i][1], 1 + MarkersBefore(pairs, i)))
                  /\ \A j \in 1..Len(pairs[i][2]) :
                        out.args[MarkersBefore(pairs, i) + j] = pairs[i][2][j]

C2_Witness ==
    /\ Built
    /\ builds = 2
    /\ Led.entry = "Select"
    /\ Matched(Led.wheres)
    /\ Len(Led.wheres) >= 2
    /\ Placeholders(out.query) = <<1, 2, 3>>
    /\ out.args = <<"w2", "w3", "w1">>

(* C3: an Update renders UPDATE, the table, the SET templates numbered     *)
(* from 1 in append order, then the WHERE templates numbered on from where *)
(* the SET templates stopped, however Set and Where calls were interleaved;*)
(* the arguments are the SET arguments then the WHERE arguments.           *)
C3_UpdateSharedCounter ==
    (Built /\ Led.entry = "Update") =>
        LET sets   == RenumberedAll(Led.sets, 1)
            wheres == RenumberedAll(Led.wheres, 1 + TotalMarkers(Led.sets))
        IN  /\ out.query =
                   Str_UPDATE \o Led.table
                   \o (IF Led.sets = << >> THEN EmptyStr
                       ELSE Str_SET \o Join(sets, Str_COMMA))
                   \o (IF Led.wheres = << >> THEN EmptyStr
                       ELSE Str_WHERE \o Join(wheres, Str_AND))
                   \o (IF Led.returning = << >> THEN EmptyStr
                       ELSE Str_RETURNING \o Join(Led.returning, Str_COMMA))
            /\ out.args = FlatArgs(Led.sets) \o FlatArgs(Led.wheres)
            /\ Placeholders(out.query) =
                   [k \in 1..(TotalMarkers(Led.sets) + TotalMarkers(Led.wheres)) |-> k]

C3_Witness ==
    /\ Built
    /\ Led.entry = "Update"
    /\ Led.firstClause = "Where"
    /\ TotalMarkers(Led.sets) > 0
    /\ TotalMarkers(Led.wheres) > 0

(* C4: Build is a pure read.  A Build step leaves every field of every     *)
(* builder as it was, and a Build that follows a Build of the same builder *)
(* with no fluent call between returns the same text and arguments.        *)
C4_BuildIsPureRead ==
    [][\A b \in DOMAIN heap :
          BuildOn(b) =>
              /\ heap' = heap
              /\ (out.r = b) =>
                     (out'.query = out.query /\ out'.args = out.args)]_vars

C4_Witness ==
    /\ builds = 2
    /\ Led.entry \in Renumbering
    /\ Len(out.args) > 0
    /\ heap[out.r].whereConds # << >>

(* C8: Build renders the kind of the entry method called most recently,    *)
(* with the table name and the where clauses passed so far, whichever kind *)
(* was current when they were passed.                                      *)
C8_LastEntryWins ==
    Built =>
        /\ Led.entry = "Select" => HasPrefix(out.query, Str_SELECT)
        /\ Led.entry = "Insert" => HasPrefix(out.query, Str_INSERT \o Led.table)
        /\ Led.entry = "Update" => HasPrefix(out.query, Str_UPDATE \o Led.table)
        /\ Led.entry = "Delete" => HasPrefix(out.query, Str_DELETE \o Led.table)
        /\ (Led.entry = "Select" /\ Led.table # EmptyStr) =>
               Contains(out.query, Str_FROM \o Led.table)
        /\ (Led.entry = "Select" /\ Led.selectCols # << >>) =>
               HasPrefix(out.query,
                         Str_SELECT \o Join(Led.selectCols, Str_COMMA))
        /\ (Led.entry \in Renumbering /\ Led.wheres # << >>) =>
               /\ Contains(out.query,
                           Str_WHERE \o Join(RenumberedAll(Led.wheres,
                               1 + TotalMarkers(RenderedPairs(Led))
                                 - TotalMarkers(Led.wheres)), Str_AND))
               /\ HasSuffix(out.args, FlatArgs(Led.wheres))

C8_Witness ==
    /\ Built
    /\ Led.entry = "Delete"
    /\ "Update" \in Led.entries
    /\ Led.table # EmptyStr
    /\ Led.wheres # << >>
    /\ out.args # << >>

(* C9: a builder on which no entry method was ever called builds the empty *)
(* text and no arguments, whatever modifiers were called on it.            *)
C9_UnsetBuildsNothing ==
    (Built /\ Led.entries = {}) =>
        (out.query = EmptyStr /\ out.args = << >> /\ ~out.panicked)

C9_Witness ==
    /\ Built
    /\ Led.entries = {}
    /\ Led.wheres # << >>
    /\ Led.sets # << >>
    /\ Led.table # EmptyStr

(* C10: Build never fails: whatever the builder holds, Build returns a     *)
(* text and an argument list and no index expression of it panics.         *)
C10_BuildNeverFails ==
    /\ \A b \in DOMAIN heap : ~Build(heap, b).panicked
    /\ Built => (~out.panicked /\ Len(out.query) >= 0 /\ Len(out.args) >= 0)

C10_Witness ==
    /\ Built
    /\ ~out.panicked
    /\ Led.entry = "Delete"
    /\ Led.table = EmptyStr
    /\ Led.sets # << >>
    /\ ~Matched(Led.wheres)
    /\ out.query # EmptyStr

\* the kind a Build of the ledger's builder dispatches on
KindOf(entry) ==
    CASE entry = "Select" -> "SELECT"
      [] entry = "Insert" -> "INSERT"
      [] entry = "Update" -> "UPDATE"
      [] entry = "Delete" -> "DELETE"
      [] OTHER -> ""

\* the struct s holds exactly what the ledger says was passed
Agrees(s, led) ==
    /\ s.queryType = KindOf(led.entry)
    /\ s.tableName = led.table
    /\ s.selectCols = led.selectCols
    /\ s.insertCols = led.insertCols
    /\ s.values = led.values
    /\ s.returning = led.returning
    /\ Len(s.setClauses) = Len(led.sets)
    /\ \A i \in DOMAIN led.sets :
          s.setClauses[i].clause = led.sets[i][1]
              /\ s.setClauses[i].args = led.sets[i][2]
    /\ Len(s.whereConds) = Len(led.wheres)
    /\ \A i \in DOMAIN led.wheres :
          s.whereConds[i].condition = led.wheres[i][1]
              /\ s.whereConds[i].args = led.wheres[i][2]
    /\ s.orderByCol = (IF led.order = << >> THEN EmptyStr ELSE led.order[1])
    /\ s.limitVal = (IF led.limit = << >> THEN -1 ELSE led.limit[1])
    /\ s.offsetVal = (IF led.offset = << >> THEN -1 ELSE led.offset[1])

(* C6: every fluent method returns the pointer it was called on, allocates *)
(* no other builder, and leaves behind that pointer a struct holding       *)
(* everything passed so far; a Build through that pointer then shows the   *)
(* clauses and arguments of every Where call made, whether or not the      *)
(* call's return value was used.                                           *)
C6_FluentReturnsReceiver ==
    [][\A b \in DOMAIN heap :
          /\ FluentOn(b) =>
                 /\ ret' = b
                 /\ Len(heap') = Len(heap)
                 /\ Agrees(heap'[b], ledger'[b])
          /\ (BuildOn(b) /\ ledger[b].entry \in Renumbering) =>
                 /\ HasSuffix(out'.args, FlatArgs(ledger[b].wheres))
                 /\ Len(Placeholders(out'.query))
                        = TotalMarkers(RenderedPairs(ledger[b]))]_vars

C6_Witness ==
    /\ Built
    /\ Led.entry = "Select"
    /\ Len(Led.wheres) = 2
    /\ ret = out.r
    /\ Len(heap) = 1
    /\ Len(out.args) >= 2

(* C7 as stated: two call sequences that differ only in the positions of  *)
(* two calls assigning different fields build the same text and the same   *)
(* arguments.                                                              *)
C7_AnySwapKeepsBuild ==
    /\ Build(heap, 1).query = Build(heap, 2).query
    /\ Build(heap, 1).args = Build(heap, 2).args

(* C7 as amended: they do when no call between the two swapped calls       *)
(* assigns a field that one of the two assigns, as when they are adjacent. *)
C7_SwapKeepsBuild ==
    ~swapped.interfered =>
        /\ Build(heap, 1).query = Build(heap, 2).query
        /\ Build(heap, 1).args = Build(heap, 2).args

C7_Witness ==
    /\ ~swapped.interfered
    /\ Len(swapped.calls) = 3
    /\ swapped.calls = <<"Where", "From", "Select">>
    /\ Len(Build(heap, 2).args) > 0
    /\ Contains(Build(heap, 1).query, Str_WHERE)

----------------------------------------------------------------------------
(* SpecBranch: the caller builds a prefix on B, keeps B, extends it along  *)
(* one branch with one call, then on the sibling branch calls              *)
(* B.Where(t2, a2).Build().                                                *)

PrefixCalls ==
    SelectCalls \cup InsertCalls \cup UpdateCalls \cup DeleteCalls
    \cup FromCalls \cup WhereCalls \cup SetCalls

ExtensionCalls == WhereCalls \cup SetCalls \cup LimitCalls

InitBranch ==
    /\ heap = <<NewSQLBuilder>>
    /\ ret = 0
    /\ out = NoOut
    /\ builds = 0
    /\ ledger = << >>
    /\ budget = MaxPrefixCalls
    /\ swapped = NoSwap
    /\ branch = NoBranch
    /\ scan = NoScan
    /\ race = NoRace
    /\ pool = NoPool
    /\ rpc = NoRpc

PrefixCall == \E c \in PrefixCalls :
    LET res == Invoke(heap, 1, c)
    IN  /\ branch.phase = "prefix"
        /\ budget > 0
        /\ heap' = res.heap
        /\ ret' = res.ret
        /\ budget' = budget - 1
        /\ UNCHANGED <<out, builds, ledger, swapped, branch, scan, race, pool, rpc>>

\* the caller keeps B: the branch point
KeepBase ==
    /\ branch.phase = "prefix"
    /\ branch' = [branch EXCEPT !.phase = "kept", !.base = heap[1]]
    /\ UNCHANGED <<heap, ret, out, builds, ledger, budget, swapped, scan, race,
                   pool, rpc>>

\* first branch: B.Where(t1, a1), B.Set(...) or B.Limit(...)
ExtendFirst == \E c \in ExtensionCalls :
    LET res == Invoke(heap, 1, c)
    IN  /\ branch.phase = "kept"
        /\ heap' = res.heap
        /\ ret' = res.ret
        /\ branch' = [branch EXCEPT !.phase = "first", !.first = c]
        /\ UNCHANGED <<out, builds, ledger, budget, swapped, scan, race, pool, rpc>>

\* sibling branch: B.Where(t2, a2) ...
ExtendSibling == \E in \in WhereInputs :
    LET res == Where(heap, 1, in[1], in[2])
    IN  /\ branch.phase = "first"
        /\ heap' = res.heap
        /\ ret' = res.ret
        /\ branch' = [branch EXCEPT !.phase = "sibling", !.second = in]
        /\ UNCHANGED <<out, builds, ledger, budget, swapped, scan, race, pool, rpc>>

\* ... .Build(), on the pointer that Where returned
BuildSibling ==
    LET res == Build(heap, ret)
    IN  /\ branch.phase = "sibling"
        /\ heap' = res.heap
        /\ out' = [r |-> ret, query |-> res.query, args |-> res.args,
                   panicked |-> res.panicked]
        /\ builds' = 1
        /\ branch' = [branch EXCEPT !.phase = "built"]
        /\ UNCHANGED <<ret, ledger, budget, swapped, scan, race, pool, rpc>>

NextBranch ==
    PrefixCall \/ KeepBase \/ ExtendFirst \/ ExtendSibling \/ BuildSibling

SpecBranch == InitBranch /\ [][NextBranch]_vars

\* the <<template, args>> pairs a struct holds
WherePairs(s) ==
    [i \in DOMAIN s.whereConds |->
        <<s.whereConds[i].condition, s.whereConds[i].args>>]
SetPairs(s) ==
    [i \in DOMAIN s.setClauses |->
        <<s.setClauses[i].clause, s.setClauses[i].args>>]

FirstIs(method) == branch.first # << >> /\ branch.first[1] = method

(* C5 as stated: the sibling's B.Where(t2, a2).Build() returns what the    *)
(* builder kept at the branch point would return with t2 alone added: the  *)
(* first branch's call shows neither in the text nor in the arguments.     *)
C5_BranchesIsolated ==
    branch.phase = "built" =>
        LET alone == Build(Where(<<branch.base>>, 1, branch.second[1],
                                 branch.second[2]).heap, 1)
        IN  out.query = alone.query /\ out.args = alone.args

(* C5 as amended: there is one builder behind both branches.  Every call   *)
(* returns B itself, and the sibling's statement shows the shared prefix,  *)
(* then the first branch's call, then t2: for Select and Delete after a    *)
(* first-branch Where the WHERE clause is prefix, t1, t2 and the arguments *)
(* are the prefix's, a1, a2; a first-branch Set shows in an Update and a   *)
(* first-branch Limit in a Select.                                         *)
C5_BranchesShareBuilder ==
    branch.phase = "built" =>
        LET base   == branch.base
            t2     == branch.second
            wheres == WherePairs(base)
                        \o (IF FirstIs("Where") THEN <<branch.first[2]>>
                            ELSE << >>)
                        \o <<t2>>
            sets   == SetPairs(base)
                        \o (IF FirstIs("Set") THEN <<branch.first[2]>>
                            ELSE << >>)
        IN  /\ out.r = 1
            /\ Len(heap) = 1
            /\ base.queryType \in {"SELECT", "DELETE"} =>
                   /\ out.args = FlatArgs(wheres)
                   /\ Contains(out.query,
                               Str_WHERE \o Join(RenumberedAll(wheres, 1),
                                                 Str_AND))
            /\ base.queryType = "UPDATE" =>
                   /\ out.args = FlatArgs(sets) \o FlatArgs(wheres)
                   /\ Contains(out.query,
                               (IF sets = << >> THEN EmptyStr
                                ELSE Str_SET \o Join(RenumberedAll(sets, 1),
                                                     Str_COMMA))
                               \o Str_WHERE
                               \o Join(RenumberedAll(wheres,
                                           1 + TotalMarkers(sets)), Str_AND))
            /\ (base.queryType = "SELECT" /\ FirstIs("Limit")
                    /\ branch.first[2] >= 0) =>
                   Contains(out.query, Str_LIMIT \o Numeral(branch.first[2]))

C5_Witness ==
    /\ branch.phase = "built"
    /\ branch.base.queryType = "SELECT"
    /\ branch.base.whereConds # << >>
    /\ FirstIs("Where")
    /\ branch.first[2] = <<TmplOne, <<"w1">> >>
    /\ branch.second = <<TmplTwo, <<"w2", "w3">> >>
    /\ out.args = branch.base.whereConds[1].args \o <<"w1", "w2", "w3">>

----------------------------------------------------------------------------
(* The clauses of a statement, one by one *)

\* the value slots $1..$n of an INSERT
ValueSlots(n) == [k \in 1..n |-> <<"$">> \o Numeral(k)]

\* the RETURNING clause the caller expects of the columns passed
ReturningText(led) ==
    IF led.returning = << >> THEN EmptyStr
    ELSE Str_RETURNING \o Join(led.returning, Str_COMMA)

(* C11: an Insert renders exactly one placeholder per supplied value,      *)
(* numbered $1..$n by value position, whether or not Columns was called    *)
(* and whatever the number of columns; the arguments are the supplied      *)
(* values in supply order.                                                 *)
C11_InsertSlotPerValue ==
    (Built /\ Led.entry = "Insert") =>
        LET n == Len(Led.values)
        IN  /\ out.query =
                   Str_INSERT \o Led.table
                   \o (IF Led.insertCols = << >> THEN EmptyStr
                       ELSE <<" ", "(">> \o Join(Led.insertCols, Str_COMMA)
                            \o <<")">>)
                   \o Str_VALUES \o Join(ValueSlots(n), Str_COMMA) \o <<")">>
                   \o ReturningText(Led)
            /\ Placeholders(out.query) = [k \in 1..n |-> k]
            /\ out.args = Led.values

C11_Witness ==
    /\ Built
    /\ Led.entry = "Insert"
    /\ Len(Led.insertCols) = 2
    /\ Led.values = <<"v1">>
    /\ Placeholders(out.query) = <<1>>

\* the limit and offset the caller passed last; -1 when never passed, as
\* NewSQLBuilder leaves them
LimitOf(led) == IF led.limit = << >> THEN -1 ELSE led.limit[1]
OffsetOf(led) == IF led.offset = << >> THEN -1 ELSE led.offset[1]

(* C12: a Select shows LIMIT (OFFSET) if and only if the limit (offset)    *)
(* passed last is non-negative: never passed or negative omits the clause, *)
(* zero renders LIMIT 0 / OFFSET 0; the value stands in the text as a      *)
(* literal integer, LIMIT before OFFSET at the end of the text, and adds   *)
(* neither a placeholder nor an argument.                                  *)
C12_LimitOffsetIffNonNegative ==
    (Built /\ Led.entry = "Select") =>
        LET lim     == LimitOf(Led)
            off     == OffsetOf(Led)
            limText == IF lim >= 0 THEN Str_LIMIT \o Numeral(lim) ELSE EmptyStr
            offText == IF off >= 0 THEN Str_OFFSET \o Numeral(off) ELSE EmptyStr
        IN  /\ Contains(out.query, Str_LIMIT) <=> lim >= 0
            /\ Contains(out.query, Str_OFFSET) <=> off >= 0
            /\ HasSuffix(out.query, limText \o offText)
            /\ out.args = FlatArgs(Led.wheres)
            /\ Len(Placeholders(out.query)) = TotalMarkers(Led.wheres)

C12_Witness ==
    /\ Built
    /\ Led.entry = "Select"
    /\ Led.limit = <<0>>
    /\ Led.offset = <<-5>>
    /\ HasSuffix(out.query, Str_LIMIT \o <<"0">>)
    /\ ~Contains(out.query, Str_OFFSET)

\* what is left of a text after its prefix p
After(text, p) == SubSeq(text, Len(p) + 1, Len(text))

\* the text ends here or goes on with one of the clauses of a SELECT
ClauseStart(rest) ==
    \/ rest = EmptyStr
    \/ HasPrefix(rest, Str_FROM)
    \/ HasPrefix(rest, Str_WHERE)
    \/ HasPrefix(rest, Str_ORDERBY)
    \/ HasPrefix(rest, Str_LIMIT)
    \/ HasPrefix(rest, Str_OFFSET)

\* the column list the caller expects of a SELECT
ColumnsText(led) ==
    IF led.selectCols = << >> THEN Str_STAR
    ELSE Join(led.selectCols, Str_COMMA)

(* C13: a Select renders SELECT * exactly when no column was ever passed   *)
(* to Select, and otherwise the columns passed, over all Select calls,     *)
(* joined by ', ' in the order passed; the column list ends there.         *)
C13_StarIffNoColumns ==
    (Built /\ Led.entry = "Select") =>
        /\ HasPrefix(out.query, Str_SELECT \o ColumnsText(Led))
        /\ ClauseStart(After(out.query, Str_SELECT \o ColumnsText(Led)))
        /\ HasPrefix(out.query, Str_SELECT \o Str_STAR)
               <=> Led.selectCols = << >>

C13_Witness ==
    /\ Built
    /\ Led.entry = "Select"
    /\ Led.selectCols = <<ColA, ColA, ColB>>
    /\ Led.table # EmptyStr
    /\ HasPrefix(out.query, Str_SELECT \o <<"a", ",", " ", "a", ",", " ", "b">>
                              \o Str_FROM)

(* C14: a Select has a FROM clause if and only if the table name passed    *)
(* last is non-empty, and then it follows the column list; with an empty   *)
(* table name the text goes from the column list to WHERE, ORDER BY,       *)
(* LIMIT or OFFSET, or ends.                                               *)
C14_FromIffTableNamed ==
    (Built /\ Led.entry = "Select") =>
        LET rest == After(out.query, Str_SELECT \o ColumnsText(Led))
        IN  /\ Contains(out.query, Str_FROM) <=> Led.table # EmptyStr
            /\ Led.table # EmptyStr =>
                   /\ HasPrefix(rest, Str_FROM \o Led.table)
                   /\ ClauseStart(After(rest, Str_FROM \o Led.table))
            /\ Led.table = EmptyStr =>
                   \/ rest = EmptyStr
                   \/ HasPrefix(rest, Str_WHERE)
                   \/ HasPrefix(rest, Str_ORDERBY)
                   \/ HasPrefix(rest, Str_LIMIT)
                   \/ HasPrefix(rest, Str_OFFSET)

C14_Witness ==
    /\ Built
    /\ Led.entry = "Select"
    /\ Led.table = EmptyStr
    /\ budget = 0
    /\ Led.selectCols = <<ColA>>
    /\ Led.wheres = << <<TmplNone, << >> >> >>
    /\ out.query = Str_SELECT \o ColA \o Str_WHERE \o TmplNone

(* C15: Set clauses show only in an Update.  For Select, Insert and Delete *)
(* the Set calls made so far add neither text nor arguments to what Build  *)
(* returns, which is what the builder without them returns, and their      *)
(* markers do not move the numbering of the WHERE clause, which starts at  *)
(* $1.                                                                     *)
C15_SetOnlyInUpdate ==
    (Built /\ Led.entry \in {"Select", "Insert", "Delete"}) =>
        LET bare == buildSwitch([heap[out.r] EXCEPT !.setClauses = << >>])
        IN  /\ ~Contains(out.query, Str_SET)
            /\ out.query = bare.query
            /\ out.args = bare.args
            /\ out.args = (IF Led.entry = "Insert" THEN Led.values
                           ELSE FlatArgs(Led.wheres))
            /\ (Led.entry # "Insert" /\ Led.wheres # << >>) =>
                   Contains(out.query,
                            Str_WHERE \o Join(RenumberedAll(Led.wheres, 1),
                                              Str_AND))
            /\ Led.entry # "Insert" =>
                   Placeholders(out.query) =
                       [k \in 1..TotalMarkers(Led.wheres) |-> k]

C15_Witness ==
    /\ Built
    /\ Led.entry = "Delete"
    /\ TotalMarkers(Led.sets) = 2
    /\ Led.wheres = << <<TmplOne, <<"w1">> >> >>
    /\ Placeholders(out.query) = <<1>>
    /\ out.args = <<"w1">>

(* C16: Insert, Update and Delete end with ' RETURNING c1, c2, ...', the   *)
(* columns of all Returning calls in the order passed, exactly when at     *)
(* least one returning column was passed; a Select never shows them; and   *)
(* they add nothing to the arguments.                                      *)
C16_ReturningTrailsNonSelect ==
    Built =>
        /\ Led.entry \in {"Insert", "Update", "Delete"} =>
               /\ Contains(out.query, Str_RETURNING) <=> Led.returning # << >>
               /\ HasSuffix(out.query, ReturningText(Led))
               /\ out.args = (IF Led.entry = "Insert" THEN Led.values
                              ELSE FlatArgs(RenderedPairs(Led)))
        /\ Led.entry = "Select" =>
               /\ ~Contains(out.query, Str_RETURNING)
               /\ out.args = FlatArgs(Led.wheres)

C16_Witness ==
    /\ Built
    /\ Led.entry = "Delete"
    /\ Led.returning = <<ColA, ColA, ColB>>
    /\ out.query = Str_DELETE \o Str_RETURNING
                     \o <<"a", ",", " ", "a", ",", " ", "b">>
    /\ out.args = << >>

\* the arguments of the pairs whose template has a marker
RECURSIVE MarkedArgs(_)
MarkedArgs(pairs) ==
    IF pairs = << >> THEN << >>
    ELSE (IF CountMarkers(pairs[1][1]) = 0 THEN << >> ELSE pairs[1][2])
         \o MarkedArgs(Tail(pairs))

\* the number the first marker of the WHERE clause gets
WhereStart(led) ==
    IF led.entry = "Update" THEN 1 + TotalMarkers(led.sets) ELSE 1

\* the WHERE clause is there exactly when a Where call was made, and is the
\* renumbered templates joined by ' AND ' in call order
WhereClauseShown ==
    /\ Contains(out.query, Str_WHERE) <=> Led.wheres # << >>
    /\ Led.wheres # << >> =>
           Contains(out.query,
                    Str_WHERE \o Join(RenumberedAll(Led.wheres, WhereStart(Led)),
                                      Str_AND)
                    \o (IF Led.entry = "Select" THEN EmptyStr
                        ELSE ReturningText(Led)))
    /\ \A i \in DOMAIN Led.wheres :
           CountMarkers(Led.wheres[i][1]) = 0 =>
               RenumberedAll(Led.wheres, WhereStart(Led))[i] = Led.wheres[i][1]

----------------------------------------------------------------------------
(* The top-level builder (builder/builder.go): the same struct without the *)
(* returning field, the same fluent methods, and build functions that copy *)
(* the templates as they are.                                              *)

Top_NewSQLBuilder ==
    [ queryType  |-> "",
      selectCols |-> << >>,
      tableName  |-> EmptyStr,
      insertCols |-> << >>,
      values     |-> << >>,
      setClauses |-> << >>,
      whereConds |-> << >>,
      orderByCol |-> EmptyStr,
      limitVal   |-> -1,
      offsetVal  |-> -1 ]

Top_Select(h, b, columns) ==
    [ heap |-> [h EXCEPT ![b].queryType = "SELECT",
                         ![b].selectCols = @ \o columns],
      ret |-> b ]

Top_From(h, b, table) ==
    [ heap |-> [h EXCEPT ![b].tableName = table], ret |-> b ]

Top_Insert(h, b, table) ==
    [ heap |-> [h EXCEPT ![b].queryType = "INSERT", ![b].tableName = table],
      ret |-> b ]

Top_Columns(h, b, columns) ==
    [ heap |-> [h EXCEPT ![b].insertCols = @ \o columns], ret |-> b ]

Top_Values(h, b, values) ==
    [ heap |-> [h EXCEPT ![b].values = @ \o values], ret |-> b ]

Top_Update(h, b, table) ==
    [ heap |-> [h EXCEPT ![b].queryType = "UPDATE", ![b].tableName = table],
      ret |-> b ]

Top_Set(h, b, clause, args) ==
    [ heap |-> [h EXCEPT ![b].setClauses = Append(@, setClause(clause, args))],
      ret |-> b ]

Top_Delete(h, b) ==
    [ heap |-> [h EXCEPT ![b].queryType = "DELETE"], ret |-> b ]

Top_Where(h, b, condition, args) ==
    [ heap |-> [h EXCEPT ![b].whereConds =
                             Append(@, whereCondition(condition, args))],
      ret |-> b ]

Top_OrderBy(h, b, column) ==
    [ heap |-> [h EXCEPT ![b].orderByCol = column], ret |-> b ]

Top_Limit(h, b, limit) ==
    [ heap |-> [h EXCEPT ![b].limitVal = limit], ret |-> b ]

Top_Offset(h, b, offset) ==
    [ heap |-> [h EXCEPT ![b].offsetVal = offset], ret |-> b ]

\* for i, cond := range b.whereConds { conditions[i] = cond.condition; ... }
RECURSIVE Top_whereLoop(_, _, _, _)
Top_whereLoop(whereConds, i, conditions, args) ==
    IF ~(i < Len(whereConds))
    THEN [strs |-> conditions, args |-> args, panicked |-> FALSE]
    ELSE LET cond == whereConds[i + 1]
         IN  IF ~InRange(i, Len(conditions))
             THEN [strs |-> conditions, args |-> args, panicked |-> TRUE]
             ELSE Top_whereLoop(whereConds, i + 1,
                                [conditions EXCEPT ![i + 1] = cond.condition],
                                args \o cond.args)

\* mutant: the SET loop numbers the markers as the internal builder does
Top_setLoopRenumbers(setClauses, i, clauses, args) ==
    LET st == setLoop(setClauses, i, clauses, 1, args)
    IN  [strs |-> st.strs, args |-> st.args, panicked |-> st.panicked]

\* for i, set := range b.setClauses { clauses[i] = set.clause; ... }
RECURSIVE Top_setLoop(_, _, _, _)
Top_setLoop(setClauses, i, clauses, args) ==
    IF ~(i < Len(setClauses))
    THEN [strs |-> clauses, args |-> args, panicked |-> FALSE]
    ELSE LET set == setClauses[i + 1]
         IN  IF ~InRange(i, Len(clauses))
             THEN [strs |-> clauses, args |-> args, panicked |-> TRUE]
             ELSE Top_setLoop(setClauses, i + 1,
                              [clauses EXCEPT ![i + 1] = set.clause],
                              args \o set.args)

\* for i := range b.values { placeholders[i] = "?" }
RECURSIVE Top_valuesLoop(_, _, _)
Top_valuesLoop(values, i, placeholders) ==
    IF ~(i < Len(values))
    THEN [strs |-> placeholders, panicked |-> FALSE]
    ELSE IF ~InRange(i, Len(placeholders))
    THEN [strs |-> placeholders, panicked |-> TRUE]
    ELSE Top_valuesLoop(values, i + 1, [placeholders EXCEPT ![i + 1] = <<"?">>])

Top_buildSelect(s) ==
    LET cols   == IF Len(s.selectCols) = 0 THEN Str_STAR
                  ELSE Join(s.selectCols, Str_COMMA)
        from   == IF s.tableName # EmptyStr THEN Str_FROM \o s.tableName
                  ELSE EmptyStr
        hasW   == Len(s.whereConds) > 0
        w      == Top_whereLoop(s.whereConds, 0,
                                MakeStrings(Len(s.whereConds)), << >>)
        where  == IF hasW THEN Str_WHERE \o Join(w.strs, Str_AND) ELSE EmptyStr
        args   == IF hasW THEN w.args ELSE << >>
        order  == IF s.orderByCol # EmptyStr THEN Str_ORDERBY \o s.orderByCol
                  ELSE EmptyStr
        limit  == IF s.limitVal >= 0 THEN Str_LIMIT \o FormatInt(s.limitVal)
                  ELSE EmptyStr
        offset == IF s.offsetVal >= 0 THEN Str_OFFSET \o FormatInt(s.offsetVal)
                  ELSE EmptyStr
    IN  IF hasW /\ w.panicked THEN Panic
        ELSE [ query |-> Str_SELECT \o cols \o from \o where \o order
                           \o limit \o offset,
               args |-> args,
               panicked |-> FALSE ]

Top_buildInsert(s) ==
    LET cols == IF Len(s.insertCols) > 0
                THEN <<" ", "(">> \o Join(s.insertCols, Str_COMMA) \o <<")">>
                ELSE EmptyStr
        v    == Top_valuesLoop(s.values, 0, MakeStrings(Len(s.values)))
    IN  IF v.panicked THEN Panic
        ELSE [ query |-> Str_INSERT \o s.tableName \o cols \o Str_VALUES
                           \o Join(v.strs, Str_COMMA) \o <<")">>,
               args |-> s.values,
               panicked |-> FALSE ]

\* mutant: the arguments of the conditions come before those of the SET clauses
Top_buildUpdateWhereArgsFirst(s) ==
    LET hasS  == Len(s.setClauses) > 0
        hasW  == Len(s.whereConds) > 0
        w     == Top_whereLoop(s.whereConds, 0, MakeStrings(Len(s.whereConds)),
                               << >>)
        args1 == IF hasW THEN w.args ELSE << >>
        st    == Top_setLoop(s.setClauses, 0, MakeStrings(Len(s.setClauses)),
                             args1)
        set   == IF hasS THEN Str_SET \o Join(st.strs, Str_COMMA) ELSE EmptyStr
        where == IF hasW THEN Str_WHERE \o Join(w.strs, Str_AND) ELSE EmptyStr
        args2 == IF hasS THEN st.args ELSE args1
    IN  IF (hasS /\ st.panicked) \/ (hasW /\ w.panicked) THEN Panic
        ELSE [ query |-> Str_UPDATE \o s.tableName \o set \o where,
               args |-> args2,
               panicked |-> FALSE ]

Top_buildUpdate(s) ==
    LET hasS  == Len(s.setClauses) > 0
        st    == Top_setLoop(s.setClauses, 0, MakeStrings(Len(s.setClauses)),
                             << >>)
        set   == IF hasS THEN Str_SET \o Join(st.strs, Str_COMMA) ELSE EmptyStr
        args1 == IF hasS THEN st.args ELSE << >>
        hasW  == Len(s.whereConds) > 0
        w     == Top_whereLoop(s.whereConds, 0, MakeStrings(Len(s.whereConds)),
                               args1)
        where == IF hasW THEN Str_WHERE \o Join(w.strs, Str_AND) ELSE EmptyStr
        args2 == IF hasW THEN w.args ELSE args1
    IN  IF (hasS /\ st.panicked) \/ (hasW /\ w.panicked) THEN Panic
        ELSE [ query |-> Str_UPDATE \o s.tableName \o set \o where,
               args |-> args2,
               panicked |-> FALSE ]

Top_buildDelete(s) ==
    LET hasW  == Len(s.whereConds) > 0
        w     == Top_whereLoop(s.whereConds, 0, MakeStrings(Len(s.whereConds)),
                               << >>)
        where == IF hasW THEN Str_WHERE \o Join(w.strs, Str_AND) ELSE EmptyStr
        args  == IF hasW THEN w.args ELSE << >>
    IN  IF hasW /\ w.panicked THEN Panic
        ELSE [ query |-> Str_DELETE \o s.tableName \o where,
               args |-> args,
               panicked |-> FALSE ]

Top_buildSwitch(s) ==
    CASE s.queryType = "SELECT" -> Top_buildSelect(s)
      [] s.queryType = "INSERT" -> Top_buildInsert(s)
      [] s.queryType = "UPDATE" -> Top_buildUpdate(s)
      [] s.queryType = "DELETE" -> Top_buildDelete(s)
      [] OTHER -> [query |-> EmptyStr, args |-> << >>, panicked |-> FALSE]

Top_Build(h, b) ==
    LET res == Top_buildSwitch(h[b])
    IN  [ heap |-> h, query |-> res.query, args |-> res.args,
          panicked |-> res.panicked ]

----------------------------------------------------------------------------
(* SpecTop: a caller holds a builder of the internal package (pointer 1)   *)
(* and one of the top-level package (pointer 2), makes every call on both, *)
(* and builds.                                                             *)

\* the methods the two packages share
TopCalls == AllCalls \ ReturningCalls

\* the call c made on the pointer b of the top-level package
Top_Invoke(h, b, c) ==
    CASE c[1] = "Select"    -> Top_Select(h, b, c[2])
      [] c[1] = "From"      -> Top_From(h, b, c[2])
      [] c[1] = "Insert"    -> Top_Insert(h, b, c[2])
      [] c[1] = "Columns"   -> Top_Columns(h, b, c[2])
      [] c[1] = "Values"    -> Top_Values(h, b, c[2])
      [] c[1] = "Update"    -> Top_Update(h, b, c[2])
      [] c[1] = "Set"       -> Top_Set(h, b, c[2][1], c[2][2])
      [] c[1] = "Delete"    -> Top_Delete(h, b)
      [] c[1] = "Where"     -> Top_Where(h, b, c[2][1], c[2][2])
      [] c[1] = "OrderBy"   -> Top_OrderBy(h, b, c[2])
      [] c[1] = "Limit"     -> Top_Limit(h, b, c[2])
      [] c[1] = "Offset"    -> Top_Offset(h, b, c[2])

\* the ledger after the caller has made the call c
Noted(led, c) ==
    CASE c[1] = "Select"    -> [Entered(led, "Select") EXCEPT
                                   !.selectCols = @ \o c[2]]
      [] c[1] = "From"      -> [led EXCEPT !.table = c[2],
                                            !.tables = @ \cup {c[2]}]
      [] c[1] = "Insert"    -> [Entered(led, "Insert") EXCEPT
                                   !.table = c[2], !.tables = @ \cup {c[2]}]
      [] c[1] = "Columns"   -> [led EXCEPT !.insertCols = @ \o c[2]]
      [] c[1] = "Values"    -> [led EXCEPT !.values = @ \o c[2]]
      [] c[1] = "Update"    -> [Entered(led, "Update") EXCEPT
                                   !.table = c[2], !.tables = @ \cup {c[2]}]
      [] c[1] = "Set"       -> [Claused(led, "Set") EXCEPT
                                   !.sets = Append(@, c[2])]
      [] c[1] = "Delete"    -> Entered(led, "Delete")
      [] c[1] = "Where"     -> [Claused(led, "Where") EXCEPT
                                   !.wheres = Append(@, c[2])]
      [] c[1] = "OrderBy"   -> [led EXCEPT !.order = <<c[2]>>]
      [] c[1] = "Limit"     -> [led EXCEPT !.limit = <<c[2]>>]
      [] c[1] = "Offset"    -> [led EXCEPT !.offset = <<c[2]>>]

InitTop ==
    /\ heap = <<NewSQLBuilder, Top_NewSQLBuilder>>
    /\ ret = 0
    /\ out = NoOut
    /\ builds = 0
    /\ ledger = <<NewLedger, NewLedger>>
    /\ budget = MaxTopCalls
    /\ swapped = NoSwap
    /\ branch = NoBranch
    /\ scan = NoScan
    /\ race = NoRace
    /\ pool = NoPool
    /\ rpc = NoRpc

\* the call c on both builders
TopCall(c) ==
    Fluent(Top_Invoke(Invoke(heap, 1, c).heap, 2, c), 2, Noted(ledger[2], c))

TopSelect == \E c \in SelectCalls : TopCall(c)
TopFrom == \E c \in FromCalls : TopCall(c)
TopInsert == \E c \in InsertCalls : TopCall(c)
TopColumns == \E c \in ColumnsCalls : TopCall(c)
TopValues == \E c \in ValuesCalls : TopCall(c)
TopUpdate == \E c \in UpdateCalls : TopCall(c)
TopSet == \E c \in SetCalls : TopCall(c)
TopDelete == \E c \in DeleteCalls : TopCall(c)
TopWhere == \E c \in WhereCalls : TopCall(c)
TopOrderBy == \E c \in OrderByCalls : TopCall(c)
TopLimit == \E c \in LimitCalls : TopCall(c)
TopOffset == \E c \in OffsetCalls : TopCall(c)

TopBuild ==
    LET res == Top_Build(heap, 2)
    IN  /\ heap' = res.heap
        /\ out' = [r |-> 2, query |-> res.query, args |-> res.args,
                   panicked |-> res.panicked]
        /\ builds' = IF out.r = 2 THEN (IF builds < 2 THEN builds + 1 ELSE 2)
                     ELSE 1
        /\ UNCHANGED <<ret, ledger, budget, swapped, branch, scan, race, pool, rpc>>

NextTop ==
    \/ TopSelect
    \/ TopFrom
    \/ TopInsert
    \/ TopColumns
    \/ TopValues
    \/ TopUpdate
    \/ TopSet
    \/ TopDelete
    \/ TopWhere
    \/ TopOrderBy
    \/ TopLimit
    \/ TopOffset
    \/ TopBuild

SpecTop == InitTop /\ [][NextTop]_vars

\* a text with every positional placeholder ("$" and the digits after it)
\* written back as the marker "?"
RECURSIVE Unnumber(_, _, _)
Unnumber(text, p, open) ==
    IF p > Len(text) THEN EmptyStr
    ELSE IF text[p] = "$" THEN <<"?">> \o Unnumber(text, p + 1, TRUE)
    ELSE IF open /\ IsDigit(text[p]) THEN Unnumber(text, p + 1, TRUE)
    ELSE <<text[p]>> \o Unnumber(text, p + 1, FALSE)

\* the templates of pairs, as passed
Templates(pairs) == [i \in DOMAIN pairs |-> pairs[i][1]]

\* n marker slots
MarkerSlots(n) == [k \in 1..n |-> <<"?">>]

(* C18: the top-level builder never renumbers.  Its text has no positional *)
(* placeholder: WHERE and SET templates stand in it as passed, with their  *)
(* markers, and every INSERT value slot is '?'; it is the internal         *)
(* builder's text with the placeholders written back as markers.  The      *)
(* arguments are the internal builder's: SET then WHERE arguments for      *)
(* Update, the values for Insert.                                          *)
C18_TopKeepsMarkers ==
    (Built /\ out.r = 2) =>
        LET int == Build(heap, 1)
        IN  /\ Placeholders(out.query) = << >>
            /\ out.query = Unnumber(int.query, 1, FALSE)
            /\ out.args = int.args
            /\ (Led.entry \in Renumbering /\ Led.wheres # << >>) =>
                   Contains(out.query,
                            Str_WHERE \o Join(Templates(Led.wheres), Str_AND))
            /\ Led.entry = "Update" =>
                   /\ out.query =
                          Str_UPDATE \o Led.table
                          \o (IF Led.sets = << >> THEN EmptyStr
                              ELSE Str_SET \o Join(Templates(Led.sets),
                                                   Str_COMMA))
                          \o (IF Led.wheres = << >> THEN EmptyStr
                              ELSE Str_WHERE \o Join(Templates(Led.wheres),
                                                     Str_AND))
                   /\ out.args = FlatArgs(Led.sets) \o FlatArgs(Led.wheres)
            /\ Led.entry \in {"Select", "Delete"} =>
                   out.args = FlatArgs(Led.wheres)
            /\ Led.entry = "Insert" =>
                   /\ HasSuffix(out.query,
                                Str_VALUES
                                \o Join(MarkerSlots(Len(Led.values)), Str_COMMA)
                                \o <<")">>)
                   /\ out.args = Led.values

C18_Witness ==
    /\ Built
    /\ out.r = 2
    /\ Led.entry = "Update"
    /\ Led.sets = << <<TmplTwo, <<"s2", "s3">> >> >>
    /\ Led.wheres = << <<TmplOne, <<"w1">> >> >>
    /\ Contains(out.query, Str_SET \o TmplTwo \o Str_WHERE \o TmplOne)
    /\ Placeholders(Build(heap, 1).query) = <<1, 2, 3>>
    /\ out.args = <<"s2", "s3", "w1">>

----------------------------------------------------------------------------
(* SpecReplace: one call of replacePlaceholders, on a template and a       *)
(* counter value drawn from the sets below.                                *)

\* templates: those of the callers above, the empty one, markers next to
\* each other, a marker between quotes among unquoted ones
ScanClauses ==
    { TmplOne, TmplTwo, TmplNone, TmplQuoted, EmptyStr, <<"?", "?">>,
      <<"?", "'", "?", "'", "x", "?">> }

InitReplace ==
    /\ heap = << >>
    /\ ret = 0
    /\ out = NoOut
    /\ builds = 0
    /\ ledger = << >>
    /\ budget = 0
    /\ swapped = NoSwap
    /\ branch = NoBranch
    /\ \E clause \in ScanClauses, start \in 1..MaxStart :
          scan = [NoScan EXCEPT !.clause = clause, !.start = start,
                                !.num = start]
    /\ race = NoRace
    /\ pool = NoPool
    /\ rpc = NoRpc

\* result := replacePlaceholders(clause, &placeholderNum)
CallReplace ==
    LET rep == replacePlaceholders(scan.clause, scan.num)
    IN  /\ ~scan.called
        /\ scan' = [scan EXCEPT !.called = TRUE, !.result = rep.result,
                                !.num = rep.num, !.panicked = rep.panicked]
        /\ UNCHANGED <<heap, ret, out, builds, ledger, budget, swapped, branch,
                       race, pool, rpc>>

NextReplace == CallReplace

SpecReplace == InitReplace /\ [][NextReplace]_vars

----------------------------------------------------------------------------
(* SpecRace: two goroutines call Where, or both Set, on one builder with   *)
(* no synchronisation.  The statement                                      *)
(*     b.whereConds = append(b.whereConds, whereCondition{...})            *)
(* is three steps: load the slice header b.whereConds, append to it (in    *)
(* place when the backing array has room, into a new array otherwise),     *)
(* store the new header.  A slice header is [arr, len, cap], arr the       *)
(* number of a backing array in race.arrays (0: the array of               *)
(* make(..., 0)).                                                          *)

Goroutines == {1, 2}
Other(g) == 3 - g

\* make([]whereCondition, 0)
EmptySlice == [arr |-> 0, len |-> 0, cap |-> 0]

\* the capacity append gives a slice that has no room for one more element
GrowCap(cap) == IF cap = 0 THEN 1 ELSE 2 * cap

\* the elements a header shows
View(arrays, hdr) ==
    IF hdr.arr = 0 THEN << >> ELSE SubSeq(arrays[hdr.arr], 1, hdr.len)

\* the element a call appends
EntryOf(method, in) ==
    IF method = "Set" THEN setClause(in[1], in[2])
    ELSE whereCondition(in[1], in[2])

\* append(slice, e): the arrays and the header it returns
SliceAppend(arrays, hdr, e) ==
    IF hdr.len < hdr.cap
    THEN [ arrays |-> [arrays EXCEPT ![hdr.arr][hdr.len + 1] = e],
           hdr    |-> [hdr EXCEPT !.len = @ + 1] ]
    ELSE LET cap == GrowCap(hdr.cap)
         IN  [ arrays |-> Append(arrays,
                              [k \in 1..cap |->
                                  IF k <= hdr.len THEN arrays[hdr.arr][k]
                                  ELSE IF k = hdr.len + 1 THEN e
                                  ELSE [f \in DOMAIN e |-> << >>]]),
               hdr    |-> [arr |-> Len(arrays) + 1, len |-> hdr.len + 1,
                           cap |-> cap] ]

\* the slice after n sequential calls that each append e
RECURSIVE Prefilled(_, _)
Prefilled(n, e) ==
    IF n = 0 THEN [arrays |-> << >>, hdr |-> EmptySlice]
    ELSE LET p == Prefilled(n - 1, e) IN SliceAppend(p.arrays, p.hdr, e)

\* the builder whose clause list of the method is the one the header shows
Showing(s, method, arrays, hdr) ==
    IF method = "Set" THEN [s EXCEPT !.setClauses = View(arrays, hdr)]
    ELSE [s EXCEPT !.whereConds = View(arrays, hdr)]

RaceInputs(method) == IF method = "Set" THEN SetInputs ELSE WhereInputs

InitRace ==
    /\ ret = 0
    /\ out = NoOut
    /\ builds = 0
    /\ ledger = << >>
    /\ budget = 0
    /\ swapped = NoSwap
    /\ branch = NoBranch
    /\ scan = NoScan
    /\ pool = NoPool
    /\ rpc = NoRpc
    /\ \E method \in {"Where", "Set"}, n \in 0..MaxRacePrefix :
          \E in1, in2 \in RaceInputs(method) :
             LET pre == Prefilled(n, EntryOf(method, <<TmplNone, << >> >>))
             IN  /\ race = [ method |-> method,
                             n      |-> n,
                             in     |-> <<in1, in2>>,
                             pc     |-> <<"load", "load">>,
                             hdr    |-> <<EmptySlice, EmptySlice>>,
                             seen   |-> <<0, 0>>,
                             slice  |-> pre.hdr,
                             arrays |-> pre.arrays,
                             stores |-> 0,
                             torn   |-> FALSE ]
                 /\ heap = <<Showing(NewSQLBuilder, method, pre.arrays,
                                     pre.hdr)>>

\* goroutine g evaluates b.whereConds, the first argument of append
RaceLoad(g) ==
    /\ ~race.torn
    /\ race.pc[g] = "load"
    /\ race' = [race EXCEPT !.pc[g] = "append", !.hdr[g] = race.slice,
                            !.seen[g] = race.stores]
    /\ UNCHANGED <<heap, ret, out, builds, ledger, budget, swapped, branch,
                   scan, pool, rpc>>

\* the same, while the other goroutine stores a header with another array
\* and capacity: the three words read may be of either header
RaceLoadTorn(g) ==
    /\ ~race.torn
    /\ race.pc[g] = "load"
    /\ race.pc[Other(g)] = "store"
    /\ race.hdr[Other(g)].arr # race.slice.arr
    /\ race' = [race EXCEPT !.torn = TRUE]
    /\ UNCHANGED <<heap, ret, out, builds, ledger, budget, swapped, branch,
                   scan, pool, rpc>>

\* goroutine g appends its element to the slice it loaded; a write into a
\* slot of the shared array that the other goroutine has written with no
\* synchronisation either replaces the element or tears it
RaceAppend(g) ==
    LET app == SliceAppend(race.arrays, race.hdr[g],
                           EntryOf(race.method, race.in[g]))
        o   == Other(g)
        sameSlot == /\ race.hdr[g].len < race.hdr[g].cap
                    /\ race.pc[o] \in {"store", "done"}
                    /\ race.hdr[o].arr = race.hdr[g].arr
                    /\ race.hdr[o].len = race.hdr[g].len + 1
    IN  /\ ~race.torn
        /\ race.pc[g] = "append"
        /\ \/ race' = [race EXCEPT !.pc[g] = "store", !.hdr[g] = app.hdr,
                                   !.arrays = app.arrays]
           \/ /\ sameSlot
              /\ race' = [race EXCEPT !.torn = TRUE]
        /\ heap' = [heap EXCEPT ![1] = Showing(@, race.method, race'.arrays,
                                               race'.slice)]
        /\ UNCHANGED <<ret, out, builds, ledger, budget, swapped, branch, scan, pool, rpc>>

\* mutant: the store appends the element to the list as it is now
RaceStoreAppends(g) ==
    LET app == SliceAppend(race.arrays, race.slice,
                           EntryOf(race.method, race.in[g]))
    IN  /\ ~race.torn
        /\ race.pc[g] = "store"
        /\ race' = [race EXCEPT !.pc[g] = "done", !.slice = app.hdr,
                                !.arrays = app.arrays, !.stores = @ + 1]
        /\ heap' = [heap EXCEPT ![1] = Showing(@, race.method, race'.arrays,
                                               race'.slice)]
        /\ ret' = 1
        /\ UNCHANGED <<out, builds, ledger, budget, swapped, branch, scan, pool, rpc>>

\* goroutine g assigns the slice that append returned to b.whereConds and
\* returns b
RaceStore(g) ==
    /\ ~race.torn
    /\ race.pc[g] = "store"
    /\ race' = [race EXCEPT !.pc[g] = "done", !.slice = race.hdr[g],
                            !.stores = @ + 1]
    /\ heap' = [heap EXCEPT ![1] = Showing(@, race.method, race'.arrays,
                                           race'.slice)]
    /\ ret' = 1
    /\ UNCHANGED <<out, builds, ledger, budget, swapped, branch, scan, pool, rpc>>

GoLoad == \E g \in Goroutines : RaceLoad(g)
GoLoadTorn == \E g \in Goroutines : RaceLoadTorn(g)
GoAppend == \E g \in Goroutines : RaceAppend(g)
GoStore == \E g \in Goroutines : RaceStore(g)

NextRace == GoLoad \/ GoLoadTorn \/ GoAppend \/ GoStore

SpecRace == InitRace /\ [][NextRace]_vars

\* the clause list of the method the goroutines call, as the builder shows it
RaceList ==
    IF race.method = "Set" THEN heap[1].setClauses ELSE heap[1].whereConds

\* both calls have returned, and no word was read or written torn
RaceDone == race.pc = <<"done", "done">> /\ ~race.torn

\* each goroutine loaded the list before the other had stored
Overlapped == race.seen = <<0, 0>>

RaceEntry(g) == EntryOf(race.method, race.in[g])

(* C20: two unsynchronised Where (or Set) calls on one builder can lose an *)
(* entry.  When both calls have returned, the list holds the entries it    *)
(* had before; if each goroutine loaded the list before the other stored   *)
(* it, the list holds one new entry, fewer than the two calls completed,   *)
(* and it is the entry of one of them; otherwise it holds both, in the     *)
(* order of the calls.                                                     *)
C20_OverlapLosesEntry ==
    RaceDone =>
        /\ race.stores = 2
        /\ Len(RaceList) >= race.n
        /\ \A k \in 1..race.n :
              RaceList[k] = EntryOf(race.method, <<TmplNone, << >> >>)
        /\ Overlapped =>
               /\ Len(RaceList) = race.n + 1
               /\ Len(RaceList) < race.n + race.stores
               /\ RaceList[race.n + 1] \in {RaceEntry(1), RaceEntry(2)}
        /\ ~Overlapped =>
               /\ Len(RaceList) = race.n + 2
               /\ \E g \in Goroutines :
                     /\ race.seen[g] = 0
                     /\ race.seen[Other(g)] = 1
                     /\ RaceList[race.n + 1] = RaceEntry(g)
                     /\ RaceList[race.n + 2] = RaceEntry(Other(g))

C20_Witness ==
    /\ RaceDone
    /\ Overlapped
    /\ race.method = "Where"
    /\ race.n = 1
    /\ race.in = << <<TmplOne, <<"w1">> >>, <<TmplTwo, <<"w2", "w3">> >> >>
    /\ Len(heap[1].whereConds) = 2
    /\ heap[1].whereConds[2] = whereCondition(TmplTwo, <<"w2", "w3">>)

----------------------------------------------------------------------------
(* SpecPair: a caller holds two builders from two NewSQLBuilder calls and  *)
(* calls fluent methods and Build on either, in any order.                 *)

InitPair ==
    /\ heap = <<NewSQLBuilder, NewSQLBuilder>>
    /\ ret = 0
    /\ out = NoOut
    /\ builds = 0
    /\ ledger = <<NewLedger, NewLedger>>
    /\ budget = MaxPairCalls
    /\ swapped = NoSwap
    /\ branch = NoBranch
    /\ scan = NoScan
    /\ race = NoRace
    /\ pool = NoPool
    /\ rpc = NoRpc

SpecPair == InitPair /\ [][Next]_vars

(* C21: builders from separate NewSQLBuilder calls are independent.  A     *)
(* fluent call on one builder leaves every field of every other builder,  *)
(* and what Build returns for it, as they were, and every builder holds    *)
(* what was passed to it and nothing that was passed to another.           *)
C21_BuildersIndependent ==
    [][\A b \in DOMAIN heap :
          FluentOn(b) =>
              \A o \in DOMAIN heap \ {b} :
                  /\ heap'[o] = heap[o]
                  /\ Build(heap', o).query = Build(heap, o).query
                  /\ Build(heap', o).args = Build(heap, o).args
                  /\ Agrees(heap'[o], ledger'[o])
                  /\ ledger'[o] = ledger[o]]_vars

C21_Witness ==
    /\ Len(heap) = 2
    /\ Built
    /\ out.r = 2
    /\ ledger[1].entry = ""
    /\ ledger[1].table = TableT
    /\ ledger[2].entry = "Delete"
    /\ ledger[2].table = EmptyStr
    /\ out.query = Str_DELETE
    /\ heap[1].tableName = TableT

----------------------------------------------------------------------------
(* The whole text of a statement, as the caller expects it of the ledger *)

WhereText(led) ==
    IF led.wheres = << >> THEN EmptyStr
    ELSE Str_WHERE \o Join(RenumberedAll(led.wheres, WhereStart(led)), Str_AND)

SelectText(led) ==
    Str_SELECT \o ColumnsText(led)
    \o (IF led.table = EmptyStr THEN EmptyStr ELSE Str_FROM \o led.table)
    \o WhereText(led)
    \o (IF led.order = << >> THEN EmptyStr ELSE Str_ORDERBY \o led.order[1])
    \o (IF LimitOf(led) < 0 THEN EmptyStr
        ELSE Str_LIMIT \o Numeral(LimitOf(led)))
    \o (IF OffsetOf(led) < 0 THEN EmptyStr
        ELSE Str_OFFSET \o Numeral(OffsetOf(led)))

\* the table names passed before the last one
PastTables(led) == led.tables \ {led.table, EmptyStr}

(* C22: OrderBy, Limit and Offset keep the value of their last call only,  *)
(* and the table name is the argument of the last call among From, Insert  *)
(* and Update: a Select is the text of the last values, the other kinds    *)
(* start with their keyword and the last table name, and a table name      *)
(* passed earlier is nowhere in the text.                                  *)
C22_LastValueOnly ==
    Built =>
        /\ Led.entry = "Select" => out.query = SelectText(Led)
        /\ Led.entry = "Insert" =>
               HasPrefix(out.query,
                         Str_INSERT \o Led.table
                         \o (IF Led.insertCols = << >> THEN Str_VALUES
                             ELSE <<" ", "(">>))
        /\ Led.entry = "Update" =>
               out.query = Str_UPDATE \o Led.table
                           \o (IF Led.sets = << >> THEN EmptyStr
                               ELSE Str_SET \o Join(RenumberedAll(Led.sets, 1),
                                                    Str_COMMA))
                           \o WhereText(Led) \o ReturningText(Led)
        /\ Led.entry = "Delete" =>
               out.query = Str_DELETE \o Led.table \o WhereText(Led)
                           \o ReturningText(Led)
        /\ \A t \in PastTables(Led) : ~Contains(out.query, t)

C22_Witness ==
    /\ Built
    /\ Led.entry = "Insert"
    /\ Led.tables = {TableT, TableU}
    /\ Led.table = TableU
    /\ heap[out.r].queryType = "INSERT"
    /\ out.query = Str_INSERT \o TableU \o Str_VALUES \o <<")">>

\* the column list of an INSERT the caller expects
InsertColumnsText(led) ==
    IF led.insertCols = << >> THEN EmptyStr
    ELSE <<" ", "(">> \o Join(led.insertCols, Str_COMMA) \o <<")">>

(* C23: Select, Columns, Values and Returning accumulate.  After any       *)
(* number of calls the builder holds the concatenation of all items        *)
(* passed, in call order; a Select lists all columns passed, and an Insert *)
(* shows all columns, one flat tuple of as many slots as values were       *)
(* passed over all Values calls, never a second tuple, and returns all     *)
(* values in call order.                                                   *)
C23_ListsAccumulate ==
    /\ \A b \in DOMAIN ledger :
          /\ heap[b].selectCols = ledger[b].selectCols
          /\ heap[b].insertCols = ledger[b].insertCols
          /\ heap[b].values = ledger[b].values
          /\ heap[b].returning = ledger[b].returning
    /\ (Built /\ Led.entry = "Select" /\ Led.selectCols # << >>) =>
           HasPrefix(out.query, Str_SELECT \o Join(Led.selectCols, Str_COMMA))
    /\ (Built /\ Led.entry = "Insert") =>
           LET tuple == After(out.query,
                              Str_INSERT \o Led.table \o InsertColumnsText(Led))
           IN  /\ tuple = Str_VALUES
                            \o Join(ValueSlots(Len(Led.values)), Str_COMMA)
                            \o <<")">> \o ReturningText(Led)
               /\ Cardinality({p \in DOMAIN tuple : tuple[p] = "("}) = 1
               /\ out.args = Led.values
    /\ (Built /\ Led.entry \in {"Insert", "Update", "Delete"}) =>
           HasSuffix(out.query, ReturningText(Led))

C23_Witness ==
    /\ Built
    /\ Led.entry = "Insert"
    /\ Led.values = <<"v1", "v2", "v3">>
    /\ HasSuffix(out.query,
                 Str_VALUES \o <<"$", "1", ",", " ", "$", "2", ",", " ",
                                 "$", "3", ")">>)
    /\ out.args = <<"v1", "v2", "v3">>

\* the struct with the fields that only a SELECT shows as NewSQLBuilder
\* leaves them
WithoutSelectFields(s) ==
    [s EXCEPT !.selectCols = << >>, !.orderByCol = EmptyStr, !.limitVal = -1,
              !.offsetVal = -1]

\* the struct with the fields that only an INSERT shows as NewSQLBuilder
\* leaves them
WithoutInsertFields(s) == [s EXCEPT !.insertCols = << >>, !.values = << >>]

(* C24: each statement kind renders its own fields only.  ORDER BY, LIMIT  *)
(* and OFFSET show in a Select only; the conditions passed to Where add    *)
(* neither text nor arguments to an Insert; the columns and values of an   *)
(* Insert add nothing to a Select, Update or Delete: the text and the      *)
(* arguments are those of the builder without the foreign fields.          *)
C24_KindRendersOwnFields ==
    Built =>
        LET s == heap[out.r]
        IN  /\ Led.entry \in {"Insert", "Update", "Delete"} =>
                   /\ ~Contains(out.query, Str_ORDERBY)
                   /\ ~Contains(out.query, Str_LIMIT)
                   /\ ~Contains(out.query, Str_OFFSET)
                   /\ out.query = buildSwitch(WithoutSelectFields(s)).query
                   /\ out.args = buildSwitch(WithoutSelectFields(s)).args
            /\ Led.entry = "Insert" =>
                   /\ ~Contains(out.query, Str_WHERE)
                   /\ ~Contains(out.query, Str_SET)
                   /\ out.query =
                          buildSwitch([s EXCEPT !.whereConds = << >>]).query
                   /\ out.args = Led.values
            /\ Led.entry \in Renumbering =>
                   /\ ~Contains(out.query, Str_VALUES)
                   /\ ~Contains(out.query, <<"(", "a">>)
                   /\ out.query = buildSwitch(WithoutInsertFields(s)).query
                   /\ out.args = FlatArgs(RenderedPairs(Led))

C24_Witness ==
    /\ Built
    /\ Led.entry = "Insert"
    /\ Led.wheres = << <<TmplOne, <<"w1">> >> >>
    /\ Led.order # << >>
    /\ out.query = Str_INSERT \o TableT \o Str_VALUES \o <<")">>
    /\ out.args = << >>

\* the positions at which p stands in s
Occurrences(s, p) ==
    {k \in 0..(Len(s) - Len(p)) : SubSeq(s, k + 1, k + Len(p)) = p}

(* C25: an Insert always has a VALUES clause, exactly one.  With no value  *)
(* passed Build returns INSERT INTO, the table, the column list if any,    *)
(* ' VALUES ()' and the RETURNING clause if any, and no arguments: the     *)
(* clause is not left out.                                                 *)
C25_InsertAlwaysHasValues ==
    (Built /\ Led.entry = "Insert") =>
        /\ Cardinality(Occurrences(out.query, Str_VALUES)) = 1
        /\ ~out.panicked
        /\ Led.values = << >> =>
               /\ out.query = Str_INSERT \o Led.table \o InsertColumnsText(Led)
                              \o Str_VALUES \o <<")">> \o ReturningText(Led)
               /\ Placeholders(out.query) = << >>
               /\ out.args = << >>

C25_Witness ==
    /\ Built
    /\ Led.entry = "Insert"
    /\ Led.values = << >>
    /\ Led.insertCols = <<ColA, ColB>>
    /\ out.query = Str_INSERT \o TableU \o <<" ", "(", "a", ",", " ", "b", ")">>
                     \o Str_VALUES \o <<")">>
    /\ out.args = << >>

Nil == "nil"

\* the values of DB_URL that main passes on (it panics on the empty one)
DbURLs == {"postgres://inventory", "inventory"}

\* pgxpool.ParseConfig accepts a connection URL and refuses other text
ParseConfig(dbURL) ==
    IF dbURL = "postgres://inventory" THEN Nil ELSE "cannot parse"

\* the errors pgxpool.NewWithConfig and pool.Ping can answer with
DriverErrors == {"connection refused", "timeout"}

DriverResults == {Nil} \cup DriverErrors

InvalidPoolConfig == "failed to parse config"

CreatePoolError == "failed to create pool"

DeleteProductError == "failed to delete product"

\* main calls NewPool(ctx, zl, dbURL); the locals of the call
InitPool ==
    /\ heap = << >>
    /\ ret = 0
    /\ out = NoOut
    /\ builds = 0
    /\ ledger = << >>
    /\ budget = 0
    /\ swapped = NoSwap
    /\ branch = NoBranch
    /\ scan = NoScan
    /\ race = NoRace
    /\ \E dbURL \in DbURLs :
           pool = [pc |-> "ParseConfig", dbURL |-> dbURL, attempts |-> 0,
                   delay |-> 0, i |-> 0, pings |-> << >>, slept |-> << >>,
                   last |-> << >>, pool |-> Nil, err |-> Nil]
    /\ rpc = NoRpc

\* cfg, err := pgxpool.ParseConfig(dbURL); return nil, InvalidPoolConfig
PoolParseConfig ==
    /\ pool.pc = "ParseConfig"
    /\ pool' = IF ParseConfig(pool.dbURL) # Nil
               THEN [pool EXCEPT !.pc = "return", !.err = InvalidPoolConfig]
               ELSE [pool EXCEPT !.pc = "NewWithConfig"]
    /\ UNCHANGED <<heap, ret, out, builds, ledger, budget, swapped, branch, scan,
                   race, rpc>>

\* pool, err := pgxpool.NewWithConfig(ctx, cfg); attempts := 5;
\* delay := time.Second; i := 0
PoolNewWithConfig ==
    /\ pool.pc = "NewWithConfig"
    /\ \E err \in DriverResults :
           pool' = IF err # Nil
                   THEN [pool EXCEPT !.pc = "return", !.err = CreatePoolError]
                   ELSE [pool EXCEPT !.pc = "for", !.attempts = 5,
                                     !.delay = 1, !.i = 0]
    /\ UNCHANGED <<heap, ret, out, builds, ledger, budget, swapped, branch, scan,
                   race, rpc>>

\* for ...; i < attempts; ... { if err := pool.Ping(ctx); err == nil { break }
PoolLoopPing ==
    /\ pool.pc = "for"
    /\ IF pool.i < pool.attempts
       THEN \E err \in DriverResults :
                pool' = [pool EXCEPT !.pings = Append(@, err),
                                     !.pc = IF err = Nil THEN "lastPing"
                                            ELSE "Sleep"]
       ELSE pool' = [pool EXCEPT !.pc = "lastPing"]
    /\ UNCHANGED <<heap, ret, out, builds, ledger, budget, swapped, branch, scan,
                   race, rpc>>

\* zl.Warn(...); time.Sleep(delay); delay *= 2; i++
PoolSleep ==
    /\ pool.pc = "Sleep"
    /\ pool' = [pool EXCEPT !.slept = Append(@, pool.delay),
                            !.delay = @ * 2,
                            !.i = @ + 1,
                            !.pc = "for"]
    /\ UNCHANGED <<heap, ret, out, builds, ledger, budget, swapped, branch, scan,
                   race, rpc>>

\* mutant: a ping that succeeded inside the loop settles the outcome
PoolLastPingTrustsLoop ==
    /\ pool.pc = "lastPing"
    /\ \E err \in DriverResults :
           pool' = IF err # Nil /\ ~(pool.pings # << >>
                                     /\ pool.pings[Len(pool.pings)] = Nil)
                   THEN [pool EXCEPT !.last = <<err>>, !.pc = "return",
                                     !.err = CreatePoolError]
                   ELSE [pool EXCEPT !.last = <<err>>, !.pc = "return",
                                     !.pool = "pool"]
    /\ UNCHANGED <<heap, ret, out, builds, ledger, budget, swapped, branch, scan,
                   race, rpc>>

\* if err := pool.Ping(ctx); err != nil { return nil, CreatePoolError }
\* return pool, nil
PoolLastPing ==
    /\ pool.pc = "lastPing"
    /\ \E err \in DriverResults :
           pool' = IF err # Nil
                   THEN [pool EXCEPT !.last = <<err>>, !.pc = "return",
                                     !.err = CreatePoolError]
                   ELSE [pool EXCEPT !.last = <<err>>, !.pc = "return",
                                     !.pool = "pool"]
    /\ UNCHANGED <<heap, ret, out, builds, ledger, budget, swapped, branch, scan,
                   race, rpc>>

NextNewPool ==
    PoolParseConfig \/ PoolNewWithConfig \/ PoolLoopPing \/ PoolSleep
        \/ PoolLastPing

\* the products a request can name
ProductIds == {"p1", "p2"}

\* resp.Success = v, through the pointer resp
SetSuccess(resp, v) ==
    IF resp = Nil THEN [panicked |-> TRUE, resp |-> resp]
    ELSE [panicked |-> FALSE, resp |-> [resp EXCEPT !.Success = v]]

\* the handler, given the request and what ProductService.Delete answers:
\* var resp *pb.DeleteResponse is the nil pointer, and both branches store
\* through it before they return
DeleteProduct(req, deleted) ==
    LET resp == Nil
        err == deleted
        stored == SetSuccess(resp, err = Nil)
    IN  IF stored.panicked
        THEN [pc |-> "DeleteProduct", id |-> req.Id, deleted |-> deleted,
              resp |-> Nil, err |-> Nil, panicked |-> TRUE]
        ELSE [pc |-> "DeleteProduct", id |-> req.Id, deleted |-> deleted,
              resp |-> stored.resp,
              err |-> IF err # Nil THEN DeleteProductError ELSE Nil,
              panicked |-> FALSE]

\* main, once NewPool has returned: panic(err.Error()), or register the
\* service and serve
MainServe ==
    /\ pool.pc = "return"
    /\ rpc.pc = ""
    /\ rpc' = IF pool.err # Nil THEN [pc |-> "exit"] ELSE [pc |-> "Serve"]
    /\ UNCHANGED <<heap, ret, out, builds, ledger, budget, swapped, branch, scan,
                   race, pool>>

\* the server runs the handler on a request; a panic in a handler ends the
\* process, so no request follows it
HandleDeleteProduct ==
    /\ rpc.pc \in {"Serve", "DeleteProduct"}
    /\ rpc.pc = "DeleteProduct" => ~rpc.panicked
    /\ \E id \in ProductIds, deleted \in DriverResults :
           rpc' = DeleteProduct([Id |-> id], deleted)
    /\ UNCHANGED <<heap, ret, out, builds, ledger, budget, swapped, branch, scan,
                   race, pool>>

NextPool == NextNewPool \/ MainServe \/ HandleDeleteProduct

SpecPool == InitPool /\ [][NextPool]_vars

\* NewPool is sequential code and each driver call and each sleep returns,
\* so a step of NewPool that can be taken is taken
SpecPoolLive == SpecPool /\ WF_vars(NextNewPool)

\* C27: NewPool returns; its loop pings at most 5 times, has slept 1, 2, 4,
\* 8, 16 seconds after the failed ones, pings no more once a ping succeeded,
\* and after the loop one last ping alone decides: the pool is returned
\* exactly if that ping succeeded, CreatePoolError if it failed.
C27_RetryLoopTerminates ==
    /\ [](/\ Len(pool.pings) <= 5
          /\ \A k \in 1..(Len(pool.pings) - 1) : pool.pings[k] # Nil
          /\ Len(pool.slept)
                 = Cardinality({k \in DOMAIN pool.pings : pool.pings[k] # Nil})
                     - (IF pool.pc = "Sleep" THEN 1 ELSE 0)
          /\ pool.slept = SubSeq(<<1, 2, 4, 8, 16>>, 1, Len(pool.slept))
          /\ (pool.pings # << >> /\ pool.pings[Len(pool.pings)] = Nil)
                 => pool.pc \in {"lastPing", "return"}
          /\ pool.pool # Nil => pool.pc = "return" /\ pool.last = <<Nil>>
          /\ (pool.pc = "return" /\ pool.pings # << >>)
                 => /\ Len(pool.last) = 1
                    /\ pool.last[1] = Nil
                           => pool.pool # Nil /\ pool.err = Nil
                    /\ pool.last[1] # Nil
                           => pool.pool = Nil /\ pool.err = CreatePoolError)
    /\ <>(pool.pc = "return")

\* five pings failed in the loop and the last ping, after 16 seconds of the
\* last sleep, found the database
C27_Witness ==
    /\ pool.pc = "return"
    /\ Len(pool.pings) = 5
    /\ \A k \in 1..5 : pool.pings[k] # Nil
    /\ pool.slept = <<1, 2, 4, 8, 16>>
    /\ pool.last = <<Nil>>
    /\ pool.pool # Nil

\* C28: DeleteProduct returns without panicking: a response with Success
\* true and no error if the service deleted, a response with Success false
\* and DeleteProductError if the service reported an error.
C28_DeleteProductReturns ==
    rpc.pc = "DeleteProduct"
        => /\ ~rpc.panicked
           /\ rpc.resp # Nil
           /\ rpc.deleted = Nil => rpc.resp.Success /\ rpc.err = Nil
           /\ rpc.deleted # Nil
                  => ~rpc.resp.Success /\ rpc.err = DeleteProductError

====
